---- MODULE Spec2Model ----
(***************************************************************************)
(* WatSON (watson.cpp / watson.h): the byte-level codec of Ngrdnt records, *)
(* the composite types built on it and their ownership of memory.          *)
(*                                                                         *)
(* A buffer is a sequence of bytes (0..255) addressed by offsets from 0.    *)
(* Buffers and strings are kept run-length encoded (see Run below), so     *)
(* that the payloads of 64 KiB at which the widest two-byte length field   *)
(* ends stay small values.  Multi-byte integers are little-endian, as the  *)
(* reinterpret_casts of the source read them on the supported targets.     *)
(***************************************************************************)
EXTENDS Integers, Sequences, FiniteSets, TLC

\* pc   : where the calling program is ("call", "raw", "have", "done", "aborted")
\* arg  : the input the caller was given
\* mem  : the heap, a sequence of byte buffers; a buffer's id is its index
\* ret  : the Ngrdnt objects returned so far, oldest first
\* kids : the children_ of the composite the caller holds
\* res  : the last Map::operator[] call, <<[key, val]>>, empty before one
\* obj  : the Compressed (child_) or Bytes (size_, ptr_) the caller holds, or
\*        the locals of a composite's constructor that is running (ptr, end,
\*        and the number n of iterations of its loop so far)
\* is   : the stream: the bytes written to it, the get position, the state flags
\* dest : the Ngrdnt::Ptr `val` operator>> is given to store the record in
\* glossary_ : Recipe::glossary_
\* iter : the steps Recipe::ngrdnt has not consumed yet
\* retval : the current value of Recipe::ngrdnt
VARIABLES pc, arg, mem, ret, kids, res, obj, is, dest, glossary_, iter, retval

stream_vars == <<is, dest>>
recipe_vars == <<glossary_, iter, retval>>
vars == <<pc, arg, mem, ret, kids, res, obj, stream_vars, recipe_vars>>

-----------------------------------------------------------------------------
(* Bounds of the model.                                                    *)

\* longest short string / payload enumerated exhaustively
MaxLen == 2
\* most iterations of a decoding loop that are followed: more than any
\* loop of LoopInputs that ends takes
MaxIter == 6
\* number of children enumerated in a composite
MaxKids == 2
\* largest map key enumerated
MaxKey == 2
\* number of times a composite is encoded again after being decoded
MaxRounds == 2

-----------------------------------------------------------------------------
(* enum class Size_type                                                    *)

k_zero == 0
k_one == 1
k_two == 2
k_eight == 3

(* enum class Ngrdnt_type                                                  *)

k_null == 63
k_true == 49
k_false == 48
k_flags == 34
k_float == 36
k_int32 == 41
k_int64 == 44
k_uint64 == 53
k_string == 51
k_library == 12
k_container == 3
k_zip == 26
k_map == 13
k_binary == 2

Ngrdnt_types ==
    { k_null, k_true, k_false, k_flags, k_float, k_int32, k_int64, k_uint64,
      k_string, k_library, k_container, k_zip, k_map, k_binary }

\* the contents of a byte the program allocated and has not written yet
Uninit == -1

-----------------------------------------------------------------------------
(* Header codec (watson.h)                                                 *)

\* (t & 0xC0) >> 6
size_type(t) == (t % 256) \div 64

\* Size_type::k_eight == t ? 8 : static_cast<uint8_t>(t)
size_size(st) == IF st = k_eight THEN 8 ELSE st

size_type_necessary(data_size) ==
    IF data_size = 0 THEN k_zero
    ELSE IF data_size < 254 THEN k_one
    ELSE IF data_size < 65534 THEN k_two
    ELSE k_eight

\* ngrdnt_header_size(const Size_type)
ngrdnt_header_size_st(st) == size_size(st) + 1

\* ngrdnt_header_size(const uint8_t)
ngrdnt_header_size(t) == ngrdnt_header_size_st(size_type(t))

\* t & 0x3F
ngrdnt_type(t) == t % 64

\* (st << 6) | it, truncated to uint8_t; it < 64 so the OR is a sum
type_marker(st, it) == (st * 64 + it) % 256


-----------------------------------------------------------------------------
(* Memory helpers: what memcpy and reinterpret_cast do on the bytes.       *)

\* the n low bytes of v, least significant first (object representation of
\* an integer; floor division gives two's complement for negative v)
RECURSIVE ToLE(_, _)
ToLE(v, n) == IF n = 0 THEN <<>> ELSE <<v % 256>> \o ToLE(v \div 256, n - 1)

\* the unsigned integer whose object representation is bs
RECURSIVE FromLE(_)
FromLE(bs) == IF bs = <<>> THEN 0 ELSE bs[1] + 256 * FromLE(Tail(bs))

\* the signed (two's complement) integer whose object representation is bs
RECURSIVE FromLESigned(_)
FromLESigned(bs) ==
    IF Len(bs) = 1 THEN (IF bs[1] >= 128 THEN bs[1] - 256 ELSE bs[1])
    ELSE bs[1] + 256 * FromLESigned(Tail(bs))

\* Run-length encoding of a byte sequence: a sequence of runs
\* [b |-> byte, n |-> count] with n > 0 and neighbouring runs of different
\* bytes, so that equal byte sequences are equal values.
Run(b, n) == IF n > 0 THEN <<[b |-> b, n |-> n]>> ELSE <<>>

\* x followed by y
Cat(x, y) ==
    IF x = <<>> THEN y
    ELSE IF y = <<>> THEN x
    ELSE IF x[Len(x)].b = y[1].b
    THEN SubSeq(x, 1, Len(x) - 1)
         \o <<[b |-> y[1].b, n |-> x[Len(x)].n + y[1].n]>> \o Tail(y)
    ELSE x \o y

\* the encoding of the plain sequence of bytes s
RECURSIVE Pack(_)
Pack(s) == IF s = <<>> THEN <<>> ELSE Cat(Run(s[1], 1), Pack(Tail(s)))

\* the plain sequence of bytes x encodes
RECURSIVE Unpack(_)
Unpack(x) ==
    IF x = <<>> THEN <<>>
    ELSE [i \in 1..x[1].n |-> x[1].b] \o Unpack(Tail(x))

\* the number of bytes of x
RECURSIVE NBytes(_)
NBytes(x) == IF x = <<>> THEN 0 ELSE x[1].n + NBytes(Tail(x))

\* x without its first k bytes
RECURSIVE Drop(_, _)
Drop(x, k) ==
    IF k <= 0 \/ x = <<>> THEN x
    ELSE IF x[1].n <= k THEN Drop(Tail(x), k - x[1].n)
    ELSE <<[b |-> x[1].b, n |-> x[1].n - k]>> \o Tail(x)

\* the first k bytes of x
RECURSIVE Take(_, _)
Take(x, k) ==
    IF k <= 0 \/ x = <<>> THEN <<>>
    ELSE IF x[1].n <= k THEN Cat(<<x[1]>>, Take(Tail(x), k - x[1].n))
    ELSE <<[b |-> x[1].b, n |-> k]>>

\* the byte at buf + off
Byte(buf, off) == Drop(buf, off)[1].b

\* the n bytes at buf + off
Read(buf, off, n) == Take(Drop(buf, off), n)

\* memcpy(buf + off, data, NBytes(data)), the region lying inside buf
Write(buf, off, data) ==
    Cat(Cat(Take(buf, off), data), Drop(buf, off + NBytes(data)))

-----------------------------------------------------------------------------
(* class Ngrdnt over the heap                                              *)

nullptr == 0

\* Ngrdnt::size(): the length field of the record at d, read at the width
\* of its size class
size(d) ==
    LET st == size_type(Byte(d, 0)) IN
    IF st = k_zero THEN 1
    ELSE IF st = k_one THEN Byte(d, 1)
    ELSE IF st = k_two THEN FromLE(Unpack(Read(d, 1, 2)))
    ELSE FromLE(Unpack(Read(d, 1, 8)))

\* the header and the size() bytes of the record at d lie in its buffer
InBounds(d) ==
    /\ NBytes(d) >= 1
    /\ NBytes(d) >= ngrdnt_header_size(Byte(d, 0))
    /\ NBytes(d) >= size(d)

\* Ngrdnt::data(): the bytes readable from data_ on
data(m, o) ==
    LET b == m[o.data_.buf] IN
    IF o.data_.off = 0 THEN b ELSE Drop(b, o.data_.off)

\* Ngrdnt::temp(bytes): a view, ptr_ owns nothing
temp(buf, off) == [ptr_ |-> nullptr, data_ |-> [buf |-> buf, off |-> off]]

\* Ngrdnt::adopt(std::move(bytes)): the object owns the new buffer
adopt(m, bytes) ==
    [mem |-> Append(m, bytes),
     val |-> [ptr_ |-> Len(m) + 1, data_ |-> [buf |-> Len(m) + 1, off |-> 0]]]

\* Ngrdnt::Ngrdnt(): one byte, the marker of a Null of size class zero
make(m) == adopt(m, Pack(<<type_marker(k_zero, k_null)>>))

\* Ngrdnt::Ngrdnt(const Ngrdnt& o): size() bytes copied into a new buffer
Ngrdnt_copy(m, o) == LET d == data(m, o) IN adopt(m, Read(d, 0, size(d)))

\* a copy that keeps the source's data pointer
clone_shallow(m, o) == [mem |-> m, val |-> o]

\* Ngrdnt::clone
clone(m, o) == Ngrdnt_copy(m, o)

\* Ngrdnt::operator=(const Ngrdnt& rhs) on the object o: o gives up its
\* buffer for a copy of the size() bytes of rhs.  An owning object is known
\* by the id of its buffer, so every Ptr to o reads the new bytes
Ngrdnt_assign(m, o, rhs) ==
    [m EXCEPT ![o.ptr_] = Read(data(m, rhs), 0, size(data(m, rhs)))]

\* the buffer id and object of the global k_not_found, made before main()
NotFoundBuf == 1
k_not_found == [ptr_ |-> NotFoundBuf, data_ |-> [buf |-> NotFoundBuf, off |-> 0]]

-----------------------------------------------------------------------------
(* Simple Ngrdnt                                                           *)

\* build_ngrdnt<IT>(data_size, &current): the buffer with its header written
\* and `current`, the offset of the first payload byte
build_ngrdnt(IT, data_size) ==
    LET st == size_type_necessary(data_size)
        header_size == ngrdnt_header_size_st(st)
        full_size == data_size + header_size
        fresh == Run(Uninit, full_size)
        marked == Write(fresh, 0, Pack(<<type_marker(st, IT)>>))
    IN  IF 0 < data_size
        THEN [ptr |-> Write(marked, 1, Pack(ToLE(full_size, size_size(st)))),
              current |-> 1 + size_size(st)]
        ELSE [ptr |-> marked, current |-> 1]

\* copy_to_ngrdnt<IT>(data_size, data), before the adopt
copy_to_ngrdnt(IT, bytes) ==
    LET b == build_ngrdnt(IT, NBytes(bytes)) IN
    IF 0 < NBytes(bytes) THEN Write(b.ptr, b.current, bytes) ELSE b.ptr

new_ngrdnt_null(m) == make(m)
new_ngrdnt_string(m, val) == adopt(m, copy_to_ngrdnt(k_string, val))
new_ngrdnt_bool(m, val) ==
    IF val THEN adopt(m, copy_to_ngrdnt(k_true, <<>>))
    ELSE adopt(m, copy_to_ngrdnt(k_false, <<>>))
new_ngrdnt_int32(m, val) == adopt(m, copy_to_ngrdnt(k_int32, Pack(ToLE(val, 4))))
new_ngrdnt_int64(m, val) == adopt(m, copy_to_ngrdnt(k_int64, Pack(ToLE(val, 8))))
new_ngrdnt_uint64(m, val) == adopt(m, copy_to_ngrdnt(k_uint64, Pack(ToLE(val, 8))))

\* ngrdnt_data<NT, IT>(val): the offset of the payload, or nullptr (-1 here,
\* 0 being a valid offset) when the record is of another type
ngrdnt_data(IT, d) ==
    IF IT = ngrdnt_type(Byte(d, 0)) THEN ngrdnt_header_size(Byte(d, 0)) ELSE -1

is_null(d) == ngrdnt_type(Byte(d, 0)) = k_null

to_int32(d) ==
    LET result == ngrdnt_data(k_int32, d) IN
    IF result # -1 THEN FromLESigned(Unpack(Read(d, result, 4))) ELSE 0

to_int64(d) ==
    LET result == ngrdnt_data(k_int64, d) IN
    IF result # -1 THEN FromLESigned(Unpack(Read(d, result, 8))) ELSE 0

to_uint64(d) ==
    LET result == ngrdnt_data(k_uint64, d) IN
    IF result # -1 THEN FromLE(Unpack(Read(d, result, 8))) ELSE 0

to_bool(d) ==
    LET t == ngrdnt_type(Byte(d, 0)) IN
    IF t = k_null \/ t = k_false THEN FALSE
    ELSE IF t = k_int32 THEN to_int32(d) # 0
    ELSE IF t = k_int64 THEN to_int64(d) # 0
    ELSE IF t = k_uint64 THEN to_uint64(d) # 0
    ELSE TRUE

\* std::to_string of an integer: decimal digits, '-' first when negative
\* (as plain character codes)
RECURSIVE DecDigits(_)
DecDigits(v) ==
    IF v >= 0
    THEN (IF v < 10 THEN <<48 + v>>
          ELSE DecDigits(v \div 10) \o <<48 + (v % 10)>>)
    ELSE LET digit == (10 - (v % 10)) % 10
             rest == (v + digit) \div 10
         IN  (IF rest = 0 THEN <<>> ELSE DecDigits(rest)) \o <<48 + digit>>

std_to_string(v) == IF v >= 0 THEN DecDigits(v) ELSE <<45>> \o DecDigits(v)

\* what std::string(ptr, n) does for n > max_size(): it throws; the value
\* stands for the exception leaving to_string
length_error == Run(-1, 1)

\* to_string(val); the k_float case (std::to_string(double)) is not
\* modelled, no input of the model is a Float
to_string(d) ==
    LET t == ngrdnt_type(Byte(d, 0))
        header_size == ngrdnt_header_size(Byte(d, 0))
        n == size(d) - header_size
    IN  IF t = k_null THEN Pack(<<110, 117, 108, 108>>)
        ELSE IF t = k_true THEN Pack(<<116, 114, 117, 101>>)
        ELSE IF t = k_false THEN Pack(<<102, 97, 108, 115, 101>>)
        ELSE IF t = k_int32 THEN Pack(std_to_string(to_int32(d)))
        ELSE IF t = k_int64 THEN Pack(std_to_string(to_int64(d)))
        ELSE IF t = k_uint64 THEN Pack(std_to_string(to_uint64(d)))
        ELSE IF t = k_string
             THEN (IF n < 0 THEN length_error ELSE Read(d, header_size, n))
        ELSE <<>>

-----------------------------------------------------------------------------
(* Composite types: decoding                                               *)

\* what to_string returns when it reads its argument's marker past the end
\* of the allocation
unread == Run(-2, 1)

\* Basic_container(const Ngrdnt::Ptr& raw), one iteration of the loop. T is
\* the element type: "Ngrdnt" keeps the clone (Ngrdnt_identity), "string"
\* keeps to_string of it (Ngrdnt_string) and the clone is destroyed with the
\* full expression.
Basic_container_iter(T, m, buf, ptr, children) ==
    LET here == temp(buf, ptr)
        c == clone(m, here)
        elem == IF T # "string" THEN c.val
                ELSE IF NBytes(data(c.mem, c.val)) = 0 THEN unread
                ELSE to_string(data(c.mem, c.val))
    IN  [mem |-> IF T = "string" THEN m ELSE c.mem,
         ptr |-> ptr + size(data(m, here)),
         children |-> Append(children, elem)]

\* Basic_container(const Ngrdnt::Ptr& raw), the loop
RECURSIVE Basic_container_loop(_, _, _, _, _, _)
Basic_container_loop(T, m, buf, ptr, end, children) ==
    IF end > ptr
    THEN LET r == Basic_container_iter(T, m, buf, ptr, children) IN
         Basic_container_loop(T, r.mem, buf, r.ptr, end, r.children)
    ELSE [mem |-> m, children |-> children]

\* Basic_container(const Basic_container&) = default and operator=, and
\* the same of Map: the copy of children_ holds a copy of every Ngrdnt::Ptr,
\* which points at the same Ngrdnt
Basic_container_copy(children) == [i \in DOMAIN children |-> children[i]]

\* Basic_container(const Ngrdnt::Ptr& raw)
Basic_container(T, m, raw) ==
    LET d == data(m, raw)
        ptr == raw.data_.off + size_size(size_type(Byte(d, 0))) + 1
        end == raw.data_.off + size(d)
    IN  Basic_container_loop(T, m, raw.data_.buf, ptr, end, <<>>)

\* Map::Map(const Ngrdnt::Ptr& raw), one iteration of the loop;
\* std::map::insert leaves an entry whose key is present as it is and the
\* clone is destroyed
Map_iter(m, buf, ptr, children) ==
    LET key == FromLE(Unpack(Read(m[buf], ptr, 4)))
        here == temp(buf, ptr + 4)
        c == clone(m, here)
        inserted == key \notin DOMAIN children
    IN  [mem |-> IF inserted THEN c.mem ELSE m,
         ptr |-> ptr + 4 + size(data(m, here)),
         children |-> IF inserted THEN children @@ (key :> c.val)
                      ELSE children]

\* Map::Map(const Ngrdnt::Ptr& raw), the loop
RECURSIVE Map_loop(_, _, _, _, _)
Map_loop(m, buf, ptr, end, children) ==
    IF end > ptr
    THEN LET r == Map_iter(m, buf, ptr, children) IN
         Map_loop(r.mem, buf, r.ptr, end, r.children)
    ELSE [mem |-> m, children |-> children, aborted |-> FALSE]

\* Map::Map(const Ngrdnt::Ptr& raw); assert(end >= ptr) aborts the program
\* unless it was built with NDEBUG
Map_raw(m, raw, ndebug) ==
    LET d == data(m, raw)
        header_size == ngrdnt_header_size(Byte(d, 0))
        ptr == raw.data_.off + header_size
        end == raw.data_.off + size(d)
    IN  IF ~ndebug /\ ~(end >= ptr)
        THEN [mem |-> m, children |-> <<>>, aborted |-> TRUE]
        ELSE Map_loop(m, raw.data_.buf, ptr, end, <<>>)

\* std::map::operator[]: a key that is absent is inserted with an empty Ptr
Map_index_inserting(children, key) ==
    IF key \in DOMAIN children
    THEN [children |-> children, val |-> children[key]]
    ELSE [children |-> children @@ (key :> temp(nullptr, 0)),
          val |-> temp(nullptr, 0)]

\* Map::operator[](uint32_t key) const
Map_index(children, key) ==
    IF key \notin DOMAIN children
    THEN [children |-> children, val |-> k_not_found]
    ELSE [children |-> children, val |-> children[key]]

-----------------------------------------------------------------------------
(* Composite types: encoding                                               *)

RECURSIVE SumLen(_)
SumLen(pieces) ==
    IF pieces = <<>> THEN 0 ELSE NBytes(Head(pieces)) + SumLen(Tail(pieces))

RECURSIVE Flatten(_)
Flatten(pieces) ==
    IF pieces = <<>> THEN <<>> ELSE Cat(Head(pieces), Flatten(Tail(pieces)))

\* The two loops the composite encoders share: sz is the sum of what each
\* child contributes, the buffer is built for sz, then each child's bytes
\* are copied at `current` after assert(end > current), end = start + sz.
pack(IT, m, pieces, ndebug) ==
    LET sz == SumLen(pieces)
        b == build_ngrdnt(IT, sz)
        asserts == \A i \in 1..Len(pieces) :
                       sz > SumLen(SubSeq(pieces, 1, i - 1))
    IN  IF ~ndebug /\ ~asserts
        THEN [mem |-> m, val |-> k_not_found, aborted |-> TRUE]
        ELSE [mem |-> adopt(m, Write(b.ptr, b.current, Flatten(pieces))).mem,
              val |-> adopt(m, Write(b.ptr, b.current, Flatten(pieces))).val,
              aborted |-> FALSE]

\* the size() bytes memcpy takes from a child
record(d) == Read(d, 0, size(d))

\* new_ngrdnt(const Container& val)
new_ngrdnt_Container(m, children, ndebug) ==
    pack(k_container, m,
         [i \in 1..Len(children) |-> record(data(m, children[i]))], ndebug)

\* new_ngrdnt(const Library& val): cache[h] = new_ngrdnt(val[h])
new_ngrdnt_Library(m, val, ndebug) ==
    pack(k_library, m,
         [h \in 1..Len(val) |-> record(copy_to_ngrdnt(k_string, val[h]))],
         ndebug)

\* the keys of a std::map in the order its iterator visits them
RECURSIVE Ascending(_)
Ascending(S) ==
    IF S = {} THEN <<>>
    ELSE LET least == CHOOSE x \in S : \A y \in S : x <= y
         IN  <<least>> \o Ascending(S \ {least})

\* new_ngrdnt(const Map& val)
new_ngrdnt_Map(m, children, ndebug) ==
    LET keys == Ascending(DOMAIN children) IN
    pack(k_map, m,
         [i \in 1..Len(keys) |->
             Cat(Pack(ToLE(keys[i], 4)), record(data(m, children[keys[i]])))],
         ndebug)

-----------------------------------------------------------------------------
(* Compressed.  Snappy is a library outside the repository: its format     *)
(* (a varint of the uncompressed length, then literal and copy elements)   *)
(* is modelled with a compressor that emits literals only, one per block   *)
(* of 64 KiB, which is what the library emits for incompressible input.    *)

\* the preamble: n in base 128, least significant group first
RECURSIVE Varint(_)
Varint(n) == IF n < 128 THEN <<n>> ELSE <<128 + (n % 128)>> \o Varint(n \div 128)

SnappyBlock == 65536

\* a literal element holding the bytes x, 0 < NBytes(x) <= SnappyBlock
Literal(x) ==
    LET n1 == NBytes(x) - 1 IN
    Cat(Pack(IF n1 < 60 THEN <<4 * n1>>
             ELSE IF n1 < 256 THEN <<4 * 60, n1>>
             ELSE <<4 * 61>> \o ToLE(n1, 2)),
        x)

RECURSIVE Literals(_)
Literals(x) ==
    IF x = <<>> THEN <<>>
    ELSE Cat(Literal(Take(x, SnappyBlock)), Literals(Drop(x, SnappyBlock)))

\* snappy::RawCompress
RawCompress(x) == Cat(Pack(Varint(NBytes(x))), Literals(x))

\* the preamble read from offset i of x: [ok, val, len].  The fifth byte is
\* limited to the values that keep the length below 2^31.
RECURSIVE ReadVarint(_, _, _)
ReadVarint(x, i, mult) ==
    IF i >= NBytes(x) \/ i >= 5 THEN [ok |-> FALSE, val |-> 0, len |-> 0]
    ELSE LET c == Byte(x, i) IN
         IF c < 128
         THEN [ok |-> i < 4 \/ c < 8, val |-> c * mult, len |-> i + 1]
         ELSE LET r == ReadVarint(x, i + 1, IF i < 3 THEN mult * 128 ELSE mult) IN
              [ok |-> r.ok /\ i < 4,
               val |-> (c - 128) * mult + (IF i < 3 THEN r.val ELSE 128 * r.val),
               len |-> r.len]

\* snappy::GetUncompressedLength(data, n, &result)
GetUncompressedLength(x) == ReadVarint(x, 0, 1)

\* a copy element: len bytes taken offset bytes back in the output, one at a
\* time (the source may overlap what is being written)
RECURSIVE CopyBack(_, _, _)
CopyBack(out, offset, len) ==
    IF len = 0 THEN out
    ELSE CopyBack(Cat(out, Run(Byte(out, NBytes(out) - offset), 1)), offset, len - 1)

RECURSIVE Elements(_, _, _, _)

\* the element at pos, whose tag byte has the low bits kind and the high
\* bits n1 and whose operand, of extra bytes, follows the tag
Element(x, pos, out, n, kind, n1, extra, operand) ==
    LET len == IF kind = 0 THEN (IF n1 < 60 THEN n1 + 1 ELSE operand + 1)
               ELSE IF kind = 1 THEN 4 + (n1 % 8) ELSE n1 + 1
        offset == IF kind = 1 THEN 256 * (n1 \div 8) + operand ELSE operand
        fail == [ok |-> FALSE, out |-> out]
    IN  IF pos + 1 + extra > NBytes(x) \/ NBytes(out) + len > n THEN fail
        ELSE IF kind = 0
        THEN (IF pos + 1 + extra + len > NBytes(x) THEN fail
              ELSE Elements(x, pos + 1 + extra + len,
                            Cat(out, Read(x, pos + 1 + extra, len)), n))
        ELSE (IF offset = 0 \/ offset > NBytes(out) THEN fail
              ELSE Elements(x, pos + 1 + extra, CopyBack(out, offset, len), n))

\* the element at pos with the tag byte given: a literal (kind 0) whose
\* length is in the tag or in 1 to 4 bytes after it, or a copy with an
\* offset of 1 (with three more bits in the tag), 2 or 4 bytes
ElementAt(x, pos, out, n, kind, n1, extra) ==
    Element(x, pos, out, n, kind, n1, extra,
            IF pos + 1 + extra > NBytes(x) \/ extra = 0 THEN 0
            ELSE FromLE(Unpack(Read(x, pos + 1, extra))))

\* the element at pos with the tag byte given
ElementTagged(x, pos, out, n, kind, n1) ==
    ElementAt(x, pos, out, n, kind, n1,
              IF kind = 0 THEN (IF n1 < 60 THEN 0 ELSE n1 - 59)
              ELSE IF kind = 1 THEN 1 ELSE IF kind = 2 THEN 2 ELSE 4)

\* the elements from offset pos of x on, appended to out; n is the length
\* the preamble announced
Elements(x, pos, out, n) ==
    IF pos >= NBytes(x) THEN [ok |-> NBytes(out) = n, out |-> out]
    ELSE ElementTagged(x, pos, out, n, Byte(x, pos) % 4, Byte(x, pos) \div 4)

\* snappy::RawUncompress after the preamble h: r is what the elements
\* wrote; what a failed call left unwritten of the output keeps the
\* contents of the allocation
Uncompressed(h, r) ==
    [ok |-> r.ok, out |-> Cat(r.out, Run(Uninit, h.val - NBytes(r.out)))]

\* snappy::RawUncompress of x whose preamble is h
UncompressFrom(x, h) ==
    IF ~h.ok THEN [ok |-> FALSE, out |-> <<>>]
    ELSE Uncompressed(h, Elements(x, h.len, <<>>, h.val))

\* snappy::RawUncompress(data, n, output): [ok, out]
RawUncompress(x) == UncompressFrom(x, GetUncompressedLength(x))

\* Compressed::Compressed(const Ngrdnt::Ptr& raw), child_ = adopt(output)
Compressed_child(a) == [mem |-> a.mem, child_ |-> a.val, outcome |-> "ok"]

\* Compressed::Compressed(const Ngrdnt::Ptr& raw) from the asserts on:
\* length is what GetUncompressedLength gave and u what RawUncompress gave
Compressed_output(m, length, u, ndebug, garbage) ==
    IF ~ndebug /\ ~(length.ok /\ u.ok)
    THEN [mem |-> m, child_ |-> k_not_found, outcome |-> "aborted"]
    ELSE Compressed_child(adopt(m, IF length.ok THEN u.out
                                   ELSE Run(Uninit, garbage)))

\* Compressed::Compressed(const Ngrdnt::Ptr& raw) of the bytes d
Compressed_data(m, d, header_size, ndebug, garbage) ==
    IF size(d) - header_size < 0
    THEN [mem |-> m, child_ |-> k_not_found, outcome |-> "ub"]
    ELSE Compressed_output(
            m, GetUncompressedLength(Read(d, header_size, size(d) - header_size)),
            RawUncompress(Read(d, header_size, size(d) - header_size)),
            ndebug, garbage)

\* Compressed::Compressed(const Ngrdnt::Ptr& raw).  garbage is the value
\* output_size has when GetUncompressedLength failed and left it unset.
\* outcome: "ok", "aborted" (an assert), "ub" (data_size wrapped below zero
\* and the primitives read past the record)
Compressed_raw(m, raw, ndebug, garbage) ==
    Compressed_data(m, data(m, raw), ngrdnt_header_size(Byte(data(m, raw), 0)),
                    ndebug, garbage)

\* Compressed(const Compressed&) = default and operator=: child_ is copied,
\* a Ptr to the same Ngrdnt
Compressed_copy(o) == [child_ |-> o.child_]

\* new_ngrdnt(const Compressed& val)
new_ngrdnt_Compressed(m, child_) ==
    LET d == data(m, child_)
        compressed == RawCompress(Read(d, 0, size(d)))
        b == build_ngrdnt(k_zip, NBytes(compressed))
    IN  adopt(m, Write(b.ptr, b.current, compressed))

-----------------------------------------------------------------------------
(* Bytes.  A Bytes value is [size_, ptr_]: ptr_ is the allocation, the     *)
(* four bytes of the marshal hint followed by the data.  A negative size_  *)
(* n stands for the uint64_t 2^64 + n.                                     *)

\* Bytes::Bytes(std::unique_ptr<uint8_t[]>&& v, uint64_t v_sz)
Bytes_adopt(v, v_sz) == [size_ |-> v_sz - 4, ptr_ |-> v]

\* Bytes::marshal_hint(): *marshal_hint_
marshal_hint(b) == FromLE(Unpack(Read(b.ptr_, 0, 4)))

\* Bytes::data(), size() bytes of it
Bytes_data(b) == Read(b.ptr_, 4, b.size_)

\* Bytes::Bytes(const Ngrdnt::Ptr& raw): [val, thrown].  size_ + 4 that
\* wrapped to 2^64 - k cannot be allocated: new[] throws
Bytes_raw(d) ==
    LET header_size == ngrdnt_header_size(Byte(d, 0))
        size_ == size(d) - header_size - 4
        alloc == size_ + 4
    IN  IF alloc < 0
        THEN [val |-> [size_ |-> size_, ptr_ |-> <<>>], thrown |-> TRUE]
        ELSE [val |-> [size_ |-> size_, ptr_ |-> Read(d, header_size, alloc)],
              thrown |-> FALSE]

\* new_ngrdnt(const Bytes& val)
new_ngrdnt_Bytes(m, b) ==
    LET sz == b.size_ + 4
        built == build_ngrdnt(k_binary, sz)
        hinted == Write(built.ptr, built.current, Pack(ToLE(marshal_hint(b), 4)))
    IN  adopt(m, Write(hinted, built.current + 4, Bytes_data(b)))

-----------------------------------------------------------------------------
(* Streams                                                                 *)

\* std::ios::good()
good(s) == s.state = "good"

\* std::istream::read(target, n): min(n, available) bytes are extracted; a
\* short read sets eofbit and failbit; nothing is read when !good()
read(s, n) ==
    LET avail == NBytes(s.buf) - s.pos
        gcount == IF ~good(s) THEN 0 ELSE IF n < avail THEN n ELSE avail
    IN  [is |-> [buf |-> s.buf, pos |-> s.pos + gcount,
                 state |-> IF gcount < n THEN "eof|fail" ELSE s.state],
         bytes |-> Read(s.buf, s.pos, gcount)]

\* successful_read_loop(is, target, sz), the loop; `got` is what target
\* holds so far
RECURSIVE read_loop(_, _, _)
read_loop(s, got, sz) ==
    IF NBytes(got) < sz /\ good(s)
    THEN LET r == read(s, sz - NBytes(got)) IN
         read_loop(r.is, Cat(got, r.bytes), sz)
    ELSE [is |-> s, bytes |-> got, ok |-> good(s)]

\* successful_read_loop(is, target, sz)
successful_read_loop(s, sz) == read_loop(s, <<>>, sz)

\* operator>> that keeps what it read when the payload is short
extract_partial(s, m, v, ndebug) ==
    LET marker == successful_read_loop(s, 1)
        st == size_type(Byte(marker.bytes, 0))
        len == successful_read_loop(marker.is, size_size(st))
        sz == IF st = k_zero THEN 1 ELSE FromLE(Unpack(len.bytes))
        offset == ngrdnt_header_size_st(st)
        payload == successful_read_loop(len.is, sz - offset)
        a == adopt(m, Cat(Cat(marker.bytes, len.bytes), payload.bytes))
    IN  IF ~marker.ok
        THEN [is |-> marker.is, mem |-> m, val |-> v, outcome |-> "eos"]
        ELSE IF ~len.ok
        THEN [is |-> len.is, mem |-> m, val |-> v, outcome |-> "thrown"]
        ELSE [is |-> payload.is, mem |-> a.mem, val |-> a.val,
              outcome |-> IF payload.ok THEN "ok" ELSE "thrown"]

\* operator>>(std::istream& is, Ngrdnt::Ptr& val).  outcome: "ok" (val is
\* the record read), "eos" (the stream returned, not good, at the first
\* byte), "thrown" (std::ios_base::failure), "aborted" (the assert), "ub"
\* (built with NDEBUG and sz <= size_size(st): memcpy writes offset > sz
\* bytes into the sz bytes allocated)
extract(s, m, v, ndebug) ==
    LET marker == successful_read_loop(s, 1)
        st == size_type(Byte(marker.bytes, 0))
        len == successful_read_loop(marker.is, size_size(st))
        sz == IF st = k_zero THEN 1 ELSE FromLE(Unpack(len.bytes))
        offset == ngrdnt_header_size_st(st)
        payload == successful_read_loop(len.is, sz - offset)
        a == adopt(m, Cat(Cat(marker.bytes, len.bytes), payload.bytes))
    IN  IF ~marker.ok
        THEN [is |-> marker.is, mem |-> m, val |-> v, outcome |-> "eos"]
        ELSE IF ~len.ok
        THEN [is |-> len.is, mem |-> m, val |-> v, outcome |-> "thrown"]
        ELSE IF ~(sz > size_size(st))
        THEN [is |-> len.is, mem |-> m, val |-> v,
              outcome |-> IF ndebug THEN "ub" ELSE "aborted"]
        ELSE IF ~payload.ok
        THEN [is |-> payload.is, mem |-> m, val |-> v, outcome |-> "thrown"]
        ELSE [is |-> payload.is, mem |-> a.mem, val |-> a.val, outcome |-> "ok"]

\* operator<<(std::ostream& os, const Ngrdnt::Ptr& val): size() bytes
insert(s, d) == [s EXCEPT !.buf = Cat(s.buf, Read(d, 0, size(d)))]

-----------------------------------------------------------------------------
(* Flags.  A std::vector<bool> is a buffer of the bytes 0 and 1, one per   *)
(* bit.                                                                    *)

\* bit o of the byte b
Bit(b, o) == (b \div (2 ^ o)) % 2

\* the encoding of s[lo..hi], halves first: s may be thousands of bytes
RECURSIVE PackRange(_, _, _)
PackRange(s, lo, hi) ==
    IF lo > hi THEN <<>>
    ELSE IF lo = hi THEN Run(s[lo], 1)
    ELSE Cat(PackRange(s, lo, (lo + hi) \div 2),
             PackRange(s, ((lo + hi) \div 2) + 1, hi))

\* new_ngrdnt(const std::vector<bool>&), the loop: whether it sets bit o
\* of ptr[j].  indx is a uint8_t, so bit h goes to the byte (h >> 3) % 256:
\* the bits h = 8 * (j + 256 * k) + o, and none when j > 255
flag_set(val, j, o) ==
    /\ j < 256
    /\ \E k \in 0..(NBytes(val) \div 2048) :
          /\ 8 * (j + 256 * k) + o < NBytes(val)
          /\ Byte(val, 8 * (j + 256 * k) + o) = 1

\* new_ngrdnt(const std::vector<bool>&), ptr[j] after the loop
RECURSIVE flags_byte(_, _, _)
flags_byte(val, j, o) ==
    IF o = 8 THEN 0
    ELSE (IF flag_set(val, j, o) THEN 2 ^ o ELSE 0) + flags_byte(val, j, o + 1)

\* new_ngrdnt(const std::vector<bool>& val)
new_ngrdnt_flags(m, val) ==
    LET data_size == (NBytes(val) \div 8) + (IF NBytes(val) % 8 = 0 THEN 0 ELSE 1)
    IN  adopt(m, copy_to_ngrdnt(k_flags,
                    PackRange([j \in 1..data_size |-> flags_byte(val, j - 1, 0)],
                              1, data_size)))

\* to_flags(val), result[h]: indx is a uint8_t here too
to_flag(d, header_size, h) ==
    Bit(Byte(d, ((h \div 8) % 256) + header_size), h % 8)

\* to_flags(val) of the bytes d.  thrown: flag_count wrapped below zero
\* and std::vector threw
to_flags(d) ==
    LET header_size == ngrdnt_header_size(Byte(d, 0))
        flag_count == (size(d) - header_size) * 8
    IN  IF flag_count < 0 THEN [thrown |-> TRUE, val |-> <<>>]
        ELSE [thrown |-> FALSE,
              val |-> PackRange([h \in 1..flag_count |->
                                    to_flag(d, header_size, h - 1)],
                                1, flag_count)]

-----------------------------------------------------------------------------
(* Glossary and Recipe.  A Glossary is [names, index]; names[h + 1] is the *)
(* name of key h.  A Recipe is the children of container_ and glossary_.   *)

\* Glossary::Glossary(const Library& l): index[l[h]] = h in ascending h, so
\* the greatest h of a repeated name stays
Glossary(l) ==
    [names |-> l,
     index |-> [n \in {l[h] : h \in 1..Len(l)} |->
                   (CHOOSE h \in 1..Len(l) :
                       /\ l[h] = n
                       /\ \A j \in (h + 1)..Len(l) : l[j] # n) - 1]]

\* xlate(const Glossary&, const std::list<std::string>&) that leaves out
\* the names it does not find
xlate_string_known(g, names) ==
    LET known == SelectSeq(names, LAMBDA name : name \in DOMAIN g.index)
    IN  [i \in 1..Len(known) |-> g.index[known[i]]]

\* xlate(const Glossary& g, const std::list<std::string>& names)
xlate_string(g, names) ==
    [i \in 1..Len(names) |->
        IF names[i] \in DOMAIN g.index THEN g.index[names[i]] ELSE 0]

\* xlate(const Glossary& g, const std::list<uint32_t>& keys)
xlate_uint32(g, keys) ==
    [i \in 1..Len(keys) |->
        IF keys[i] < Len(g.names) THEN g.names[keys[i] + 1] ELSE <<>>]

\* Glossary() = default
NoGlossary == [names |-> <<>>, index |-> <<>>]

\* Recipe::Recipe(Ngrdnt::Ptr&&), the loop without its break: every Library
\* among the children replaces glossary_
RECURSIVE find_library_no_break(_, _, _, _)
find_library_no_break(m, children, i, g) ==
    IF i > Len(children) THEN g
    ELSE IF ngrdnt_type(Byte(data(m, children[i]), 0)) = k_library
    THEN find_library_no_break(m, children, i + 1,
            Glossary(Basic_container("string", m, children[i]).children))
    ELSE find_library_no_break(m, children, i + 1, g)

\* Recipe::Recipe(Ngrdnt::Ptr&&), the loop over container_.children():
\* glossary_ is made of the first child that is a Library
RECURSIVE find_library(_, _, _, _)
find_library(m, children, i, g) ==
    IF i > Len(children) THEN g
    ELSE IF ngrdnt_type(Byte(data(m, children[i]), 0)) = k_library
    THEN Glossary(Basic_container("string", m, children[i]).children)
    ELSE find_library(m, children, i + 1, g)

\* Recipe::Recipe(Ngrdnt::Ptr&& c), the members once the loop is done.
\* thrown: to_string threw on a child of the Library
Recipe_members(container_, g) ==
    [mem |-> container_.mem, children |-> container_.children,
     glossary_ |-> g,
     thrown |-> \E h \in 1..Len(g.names) : g.names[h] = length_error]

\* Recipe::Recipe(Ngrdnt::Ptr&& c) from the loop on
Recipe_scan(container_) ==
    Recipe_members(container_,
                   find_library(container_.mem, container_.children, 1,
                                NoGlossary))

\* Recipe::Recipe(Ngrdnt::Ptr&& c)
Recipe(m, c) ==
    Recipe_scan(IF ngrdnt_type(Byte(data(m, c), 0)) = k_container
                THEN Basic_container("Ngrdnt", clone(m, c).mem, clone(m, c).val)
                ELSE [mem |-> m, children |-> <<c>>])

\* Recipe::ngrdnt, case k_container of the switch; tmp is Container(retval)
ngrdnt_container(tmp, steps) ==
    IF Head(steps) >= Len(tmp.children)
    THEN [mem |-> tmp.mem, val |-> k_not_found, steps |-> steps,
          outcome |-> "return"]
    ELSE [mem |-> tmp.mem, val |-> tmp.children[Head(steps) + 1],
          steps |-> Tail(steps), outcome |-> "loop"]

\* Recipe::ngrdnt, case k_map of the switch; map is Map(retval), whose
\* assert may have stopped the program
ngrdnt_map(map, m, cur, steps) ==
    IF map.aborted
    THEN [mem |-> m, val |-> cur, steps |-> steps, outcome |-> "aborted"]
    ELSE [mem |-> map.mem, val |-> Map_index(map.children, Head(steps)).val,
          steps |-> Tail(steps), outcome |-> "loop"]

\* Recipe::ngrdnt, case k_zip of the switch with a ++iter added to it
ngrdnt_zip_consuming(zip, m, cur, steps) ==
    IF zip.outcome = "ok"
    THEN [mem |-> zip.mem, val |-> zip.child_, steps |-> Tail(steps),
          outcome |-> "loop"]
    ELSE [mem |-> m, val |-> cur, steps |-> steps, outcome |-> zip.outcome]

\* Recipe::ngrdnt, case k_zip of the switch; zip is Compressed(retval).
\* iter stays where it is
ngrdnt_zip(zip, m, cur, steps) ==
    IF zip.outcome = "ok"
    THEN [mem |-> zip.mem, val |-> zip.child_, steps |-> steps,
          outcome |-> "loop"]
    ELSE [mem |-> m, val |-> cur, steps |-> steps, outcome |-> zip.outcome]

\* Recipe::ngrdnt, one pass of the loop, were the default case to skip the
\* step and go on
ngrdnt_step_skipping(m, cur, steps, ndebug, garbage) ==
    LET t == ngrdnt_type(Byte(data(m, cur), 0)) IN
    IF t = k_container
    THEN ngrdnt_container(Basic_container("Ngrdnt", m, cur), steps)
    ELSE IF t = k_map
    THEN ngrdnt_map(Map_raw(m, cur, ndebug), m, cur, steps)
    ELSE IF t = k_zip
    THEN ngrdnt_zip(Compressed_raw(m, cur, ndebug, garbage), m, cur, steps)
    ELSE [mem |-> m, val |-> cur, steps |-> Tail(steps), outcome |-> "loop"]

\* Recipe::ngrdnt, one pass of the loop: the switch on the kind of retval.
\* cur is retval and steps is what is left from iter on.  outcome: "loop",
\* "return" (of val), "aborted" (an assert), "ub"
ngrdnt_step(m, cur, steps, ndebug, garbage) ==
    LET t == ngrdnt_type(Byte(data(m, cur), 0)) IN
    IF t = k_container
    THEN ngrdnt_container(Basic_container("Ngrdnt", m, cur), steps)
    ELSE IF t = k_map
    THEN ngrdnt_map(Map_raw(m, cur, ndebug), m, cur, steps)
    ELSE IF t = k_zip
    THEN ngrdnt_zip(Compressed_raw(m, cur, ndebug, garbage), m, cur, steps)
    ELSE [mem |-> m, val |-> k_not_found, steps |-> steps,
          outcome |-> "return"]

RECURSIVE ngrdnt_loop(_, _, _, _)

\* Recipe::ngrdnt, the loop after the pass s
ngrdnt_next(s, ndebug) ==
    IF s.outcome = "loop" THEN ngrdnt_loop(s.mem, s.val, s.steps, ndebug)
    ELSE [mem |-> s.mem, val |-> s.val, outcome |-> s.outcome]

\* Recipe::ngrdnt, the loop from retval = cur on
ngrdnt_loop(m, cur, steps, ndebug) ==
    IF steps = <<>> THEN [mem |-> m, val |-> cur, outcome |-> "return"]
    ELSE ngrdnt_next(ngrdnt_step(m, cur, steps, ndebug, 0), ndebug)

\* Recipe::ngrdnt up to the loop, were an empty path to select the first
\* child of the root
ngrdnt_begin_root(children, steps) ==
    IF steps = <<>> /\ children # <<>>
    THEN [val |-> children[1], steps |-> <<>>, outcome |-> "return"]
    ELSE IF steps = <<>> \/ Head(steps) >= Len(children)
    THEN [val |-> k_not_found, steps |-> steps, outcome |-> "ub"]
    ELSE [val |-> children[Head(steps) + 1], steps |-> Tail(steps),
          outcome |-> "loop"]

\* Recipe::ngrdnt(const std::list<uint32_t>& steps) up to the loop, on the
\* Recipe with the children given: an empty path returns k_not_found;
\* container_[*iter] is std::vector::operator[], which checks nothing, so a
\* first step past the last child is undefined ("ub")
ngrdnt_begin(children, steps) ==
    IF steps = <<>>
    THEN [val |-> k_not_found, steps |-> <<>>, outcome |-> "return"]
    ELSE IF Head(steps) >= Len(children)
    THEN [val |-> k_not_found, steps |-> steps, outcome |-> "ub"]
    ELSE [val |-> children[Head(steps) + 1], steps |-> Tail(steps),
          outcome |-> "loop"]

\* Recipe::ngrdnt(const std::list<uint32_t>& steps) of the Recipe with the
\* children given; container_[*iter] is std::vector::operator[], which
\* checks nothing
Recipe_ngrdnt(m, children, steps, ndebug) ==
    IF steps = <<>> THEN [mem |-> m, val |-> k_not_found, outcome |-> "return"]
    ELSE IF Head(steps) >= Len(children)
    THEN [mem |-> m, val |-> k_not_found, outcome |-> "ub"]
    ELSE ngrdnt_loop(m, children[Head(steps) + 1], Tail(steps), ndebug)

\* Recipe::recipe without the if: the sub-Recipe keeps the Glossary its
\* constructor found
Recipe_inherit_none(r, g) == r

\* Recipe::recipe, the if: a sub-Recipe whose Glossary is empty takes g,
\* the Glossary of the Recipe it was made from, when g is not empty
Recipe_inherit(r, g) ==
    IF r.glossary_.names = <<>> /\ g.names # <<>>
    THEN [r EXCEPT !.glossary_ = g]
    ELSE r

\* Recipe::recipe once ngrdnt(steps) returned found: Recipe retval(found)
\* is Recipe(const Ngrdnt::Ptr&), which constructs from Ngrdnt::clone(found)
Recipe_recipe(m, found, g) ==
    Recipe_inherit(Recipe(clone(m, found).mem, clone(m, found).val), g)

-----------------------------------------------------------------------------
(* Inputs                                                                  *)

SeqsUpTo(S, n) == UNION {[1..k -> S] : k \in 0..n}

BigString(n) == Run(97, n)

\* payload lengths around the size-class thresholds
PayloadLens == (0..MaxLen) \cup (252..257) \cup (65531..65536)

ShortStrings == {Pack(s) : s \in SeqsUpTo({0, 97}, MaxLen)}

Strings == ShortStrings \cup {BigString(n) : n \in {253, 254, 65533, 65534}}

\* the values of the 64-bit types are taken in the range the checker's
\* integers have
IntVals == {-2147483647 - 1, -1, 0, 1, 100, 2147483647} \cup (-MaxLen..MaxLen)
UintVals == {0, 1, 255, 256, 65536, 2147483647}

\* "Testing", "Testing.", "Third" of the test suites
Testing == <<84, 101, 115, 116, 105, 110, 103>>
TestStrings ==
    <<Pack(Testing), Pack(Testing \o <<46>>), Pack(<<84, 104, 105, 114, 100>>)>>

\* records a caller holds as children: Null, True, an Int32 and a String
ChildPool ==
    { Pack(<<type_marker(k_zero, k_null)>>), Pack(<<type_marker(k_zero, k_true)>>),
      copy_to_ngrdnt(k_int32, Pack(ToLE(100, 4))),
      copy_to_ngrdnt(k_string, Run(97, 1)) }

EntryPool ==
    (0..MaxKey) \X { Pack(<<type_marker(k_zero, k_null)>>),
                     copy_to_ngrdnt(k_string, Run(97, 1)) }

\* a record as a writer that follows the format lays it out: the smallest
\* length field that holds the total size
wire(IT, payload) ==
    LET p == NBytes(payload)
        st == IF p = 0 THEN k_zero
              ELSE IF p + 2 <= 255 THEN k_one
              ELSE IF p + 3 <= 65535 THEN k_two
              ELSE k_eight
    IN  Cat(Pack(<<type_marker(st, IT)>>
                 \o (IF p = 0 THEN <<>>
                     ELSE ToLE(p + 1 + size_size(st), size_size(st)))),
            payload)

\* the payload of a Map with the entries <<key, child>> in the order given
EntryBytes(entries) ==
    Flatten([i \in 1..Len(entries) |->
                Cat(Pack(ToLE(entries[i][1], 4)), entries[i][2])])

BuildInputs == [op : {"build"}, IT : Ngrdnt_types, p : PayloadLens]
NullInputs == [op : {"null"}]
BoolInputs == [op : {"bool"}, v : BOOLEAN]
Int32Inputs == [op : {"int32"}, v : IntVals]
Int64Inputs == [op : {"int64"}, v : IntVals]
Uint64Inputs == [op : {"uint64"}, v : UintVals]
StringInputs == [op : {"string"}, v : Strings]

ContainerInputs ==
    [op : {"container"}, ndebug : BOOLEAN,
     cs : SeqsUpTo(ChildPool, MaxKids)
          \cup {<<copy_to_ngrdnt(k_string, BigString(65530))>>}]

LibraryInputs ==
    [op : {"library"}, ndebug : BOOLEAN,
     ss : SeqsUpTo(ShortStrings, MaxKids)
          \cup {TestStrings, <<BigString(65530)>>, <<BigString(65533)>>}]

MapInputs ==
    [op : {"map"}, ndebug : BOOLEAN,
     c : UNION {[D -> ChildPool] : D \in SUBSET (0..MaxKey)}
         \cup {(0 :> copy_to_ngrdnt(k_string, BigString(65526)))}]

ContainerRawInputs ==
    {[op |-> "container_raw", ndebug |-> nd, cs |-> cs,
      buf |-> wire(k_container, Flatten(cs))] :
        cs \in SeqsUpTo(ChildPool, MaxKids), nd \in BOOLEAN}

LibraryRawInputs ==
    {[op |-> "library_raw", ndebug |-> nd, cs |-> cs,
      buf |-> wire(k_library, Flatten(cs))] :
        cs \in SeqsUpTo(ChildPool, MaxKids), nd \in BOOLEAN}

MapRawInputs ==
    {[op |-> "map_raw", ndebug |-> nd, entries |-> es,
      buf |-> wire(k_map, EntryBytes(es))] :
        es \in SeqsUpTo(EntryPool, MaxKids)
               \cup {<<<<0, copy_to_ngrdnt(k_string, BigString(65526))>>>>},
        nd \in BOOLEAN}

\* records that do not follow the format: a child of a Kind that is not
\* enumerated (type 0 of size class zero; type 1 with a one-byte payload)
UnknownPool == {Pack(<<type_marker(k_zero, 0)>>), Pack(<<type_marker(k_one, 1), 3, 7>>)}

\* children of a malformed record: the unknown Kinds, an Int32 and a String
BadPool ==
    UnknownPool \cup { copy_to_ngrdnt(k_int32, Pack(ToLE(100, 4))),
                       copy_to_ngrdnt(k_string, Run(97, 1)) }

\* entries of a malformed Map: each such child under key 0, and a String
\* under the largest key
BadEntryPool ==
    ({0} \X BadPool) \cup {<<MaxKey, copy_to_ngrdnt(k_string, Run(97, 1))>>}

\* the byte that follows the record in the caller's buffer
Trailing == Run(238, 1)

\* the bytes of a record of type IT whose length field declares `cut` bytes
\* less than the payload written, followed by the rest of the caller's
\* buffer: the last child (or entry) extends past the end of the record
cut_wire(IT, payload, cut) ==
    LET p == NBytes(payload) - cut IN
    Cat(Cat(wire(IT, Take(payload, p)), Drop(payload, p)), Trailing)

\* by how many bytes a child or entry may extend past the end: less than the
\* widest entry, a 4-byte key and the 6 bytes of an Int32 record
Cuts == 0..9

\* a Container record that has a child of unknown Kind, or whose last child
\* extends x[2] > 0 bytes past the record's end
BadContainers ==
    {x \in (SeqsUpTo(BadPool, MaxKids) \ {<<>>}) \X Cuts :
        /\ x[2] < NBytes(x[1][Len(x[1])])
        /\ x[2] > 0 \/ \E i \in 1..Len(x[1]) : x[1][i] \in UnknownPool}

ContainerBadInputs ==
    {[op |-> "container_bad", ndebug |-> nd, cs |-> x[1], cut |-> x[2],
      buf |-> cut_wire(k_container, Flatten(x[1]), x[2])] :
        nd \in BOOLEAN, x \in BadContainers}

\* a Map record that has a child of unknown Kind, or whose last entry
\* extends x[2] > 0 bytes past the record's end
BadMaps ==
    {x \in (SeqsUpTo(BadEntryPool, MaxKids) \ {<<>>}) \X Cuts :
        /\ x[2] < 4 + NBytes(x[1][Len(x[1])][2])
        /\ x[2] > 0 \/ \E i \in 1..Len(x[1]) : x[1][i][2] \in UnknownPool}

MapBadInputs ==
    {[op |-> "map_bad", ndebug |-> nd, entries |-> x[1], cut |-> x[2],
      buf |-> cut_wire(k_map, EntryBytes(x[1]), x[2])] :
        nd \in BOOLEAN, x \in BadMaps}

\* records read from a stream: a Null, a String, records of unknown Kind,
\* and Strings with a two-byte and an eight-byte length field
StreamPool ==
    {Pack(<<type_marker(k_zero, k_null)>>), copy_to_ngrdnt(k_string, Run(97, 1))}
    \cup UnknownPool
    \cup {wire(k_string, BigString(300)), wire(k_string, BigString(65540))}

\* records written to a stream with operator<<, as new_ngrdnt built them
StreamInputs ==
    [op : {"stream"}, ndebug : BOOLEAN,
     rs : SeqsUpTo(ChildPool, MaxKids)
          \cup {<<copy_to_ngrdnt(k_string, BigString(n))>> : n \in {300, 65533, 65540}}
          \cup {<<copy_to_ngrdnt(k_string, BigString(65533)),
                  Pack(<<type_marker(k_zero, k_null)>>)>>}]

\* how many bytes of its last record a stream lacks: none, a few, or all
\* but some of the header
StreamCuts(last) ==
    {c \in Cuts \cup ((NBytes(last) - 3)..(NBytes(last) - 1)) :
        0 <= c /\ c < NBytes(last)}

\* a stream holding the records x[1] without the last x[2] bytes
CutStreams ==
    UNION {{<<rs, c>> : c \in StreamCuts(rs[Len(rs)])} :
              rs \in SeqsUpTo(StreamPool, MaxKids) \ {<<>>}}

StreamRawInputs ==
    {[op |-> "stream_raw", ndebug |-> nd, rs |-> x[1], cut |-> x[2],
      buf |-> Take(Flatten(x[1]), NBytes(Flatten(x[1])) - x[2])] :
        nd \in BOOLEAN, x \in CutStreams}
     \cup [op : {"stream_raw"}, ndebug : BOOLEAN, rs : {<<>>}, cut : {0},
          buf : {<<>>}]

\* the strings of a Library, a name among them more than once or not, and
\* what is translated: names, one of them in no Library, or keys, the
\* largest past every Library
XlateLibraries == SeqsUpTo({Run(97, 1), Run(98, 1)}, MaxKids)

XlateInputs ==
    [op : {"xlate"}, l : XlateLibraries,
     names : SeqsUpTo({Run(97, 1), Run(98, 1), Run(99, 1)}, 2)]
    \cup [op : {"xlate"}, l : XlateLibraries, keys : SeqsUpTo(0..(MaxKids + 1), 2)]

\* the composites that are copied, their children (the Compressed has the
\* first as its child_) and the record a child is assigned afterwards
CopyInputs ==
    [op : {"copy"}, T : {"Container", "Map", "Compressed", "Recipe"},
     cs : SeqsUpTo(ChildPool, MaxKids) \ {<<>>},
     x : {copy_to_ngrdnt(k_int32, Pack(ToLE(7, 4)))}]

\* children whose length field reads 0, one of each size class that has one
ZeroPool ==
    {Pack(<<type_marker(k_one, k_int32), 0>>),
     Pack(<<type_marker(k_two, k_string), 0, 0>>),
     Cat(Run(type_marker(k_eight, k_null), 1), Run(0, 8))}

\* the children of a composite decoded one iteration at a time: none, a
\* String and a Null, and a child of ZeroPool alone, first or last
LoopChildren ==
    {<<>>, <<copy_to_ngrdnt(k_string, Run(97, 1)), Pack(<<type_marker(k_zero, k_null)>>)>>}
    \cup UNION {{<<z>>, <<z, copy_to_ngrdnt(k_string, Run(97, 1))>>,
                 <<copy_to_ngrdnt(k_string, Run(97, 1)), z>>} : z \in ZeroPool}

\* cs as the entries of a Map, child i under the key i - 1
Keyed(cs) == [i \in 1..Len(cs) |-> <<i - 1, cs[i]>>]

LoopInputs ==
    {[op |-> "loop", ndebug |-> nd, IT |-> k, cs |-> cs,
      buf |-> Cat(wire(k, IF k = k_map THEN EntryBytes(Keyed(cs)) ELSE Flatten(cs)),
                  Trailing)] :
        nd \in BOOLEAN, k \in {k_container, k_library, k_map}, cs \in LoopChildren}


\* headers that declare a total size below their own width: each size class
\* with a length field, holding 0 or size_size(st)
ShortPool ==
    {Pack(<<type_marker(k_one, k_string), 0>>),
     Pack(<<type_marker(k_one, k_string), 1>>),
     Pack(<<type_marker(k_two, k_string), 2, 0>>),
     Cat(Run(type_marker(k_eight, k_string), 1), Cat(Run(8, 1), Run(0, 7)))}

\* a stream of complete records, one of them such a header, and what
\* follows it
ShortStreamInputs ==
    {[op |-> "stream_short", ndebug |-> nd, rs |-> rs, cut |-> 0,
      buf |-> Cat(Flatten(rs), t)] :
        nd \in BOOLEAN,
        rs \in {<<x>> : x \in ShortPool}
               \cup {<<copy_to_ngrdnt(k_string, Run(97, 1)), x>> : x \in ShortPool},
        t \in {<<>>, Run(97, MaxLen)}}

GivenStreamOps == {"stream_raw", "stream_short"}

StreamOps == {"stream"} \cup GivenStreamOps

\* test_container and test_compressed_container of the test suite: a
\* Container record and what the Snappy library compressed it to
test_container ==
    Pack(<<67, 37, 115, 9>> \o Testing \o <<115, 10>> \o Testing \o <<46>>
         \o <<115, 7, 84, 104, 105, 114, 100, 48, 49, 63, 105, 6, 240, 240, 240, 241>>)
test_compressed_payload ==
    Pack(<<37, 48, 67, 37, 115, 9>> \o Testing
         \o <<115, 10, 13, 9, 64, 46, 115, 7, 84, 104, 105, 114, 100, 48, 49, 63,
              105, 6, 240, 240, 240, 241>>)

\* records a Compressed is made of: the children above, a Container, and
\* Strings whose compressed form is 0xFFFD bytes and more than 0xFFFF bytes
ZipInputs ==
    [op : {"zip"}, ndebug : BOOLEAN,
     x : ChildPool
         \cup {test_container, copy_to_ngrdnt(k_string, BigString(65524)),
               copy_to_ngrdnt(k_string, BigString(65540))}]

\* payloads Snappy uncompresses to a record
GoodZips == {RawCompress(x) : x \in ChildPool} \cup {test_compressed_payload}

\* payloads Snappy rejects (no preamble; a preamble that does not end; less
\* output than announced) and payloads whose output is no record (no byte;
\* a String that declares 9 bytes and has 3)
BadZips ==
    { <<>>, Pack(<<128>>), Pack(<<5, 0, 1>>), RawCompress(<<>>),
      RawCompress(Pack(<<type_marker(k_one, k_string), 9, 84>>)) }

ZipRawInputs ==
    {[op |-> "zip_raw", ndebug |-> nd, payload |-> p, bad |-> p \in BadZips,
      buf |-> wire(k_zip, p)] : nd \in BOOLEAN, p \in GoodZips \cup BadZips}

ZipOps == {"zip", "zip_raw"}

\* marshal hints, 0x01020304 among them
Hints == {0, 1, 16909060, 2147483647}

\* a Bytes made of a hint and data: short data, and data that with the
\* hint is 0xFE, 0xFFFD and more than 0xFFFF bytes
BytesInputs ==
    [op : {"bytes"}, ndebug : BOOLEAN, h : Hints,
     d : ShortStrings \cup {BigString(n) : n \in {250, 65529, 65540}}]

\* records a Recipe is made of: Null, a String, a Container of both and a
\* Map of the String and the Container
NullRecord == Pack(<<type_marker(k_zero, k_null)>>)
AString == wire(k_string, Run(97, 1))
Inner == wire(k_container, Flatten(<<AString, NullRecord>>))
AMap == wire(k_map, EntryBytes(<<<<1, AString>>, <<2, Inner>>>>))

\* a Flags of the bits 1, 0, 1 and a Binary of the hint 1 and the byte 7
AFlags == wire(k_flags, Pack(<<5>>))
ABinary == wire(k_binary, Pack(<<1, 0, 0, 0, 7>>))

\* x inside n Zip records, as new_ngrdnt(Compressed(...)) nests them
RECURSIVE ZipN(_, _)
ZipN(x, n) == IF n = 0 THEN x ELSE wire(k_zip, RawCompress(ZipN(x, n - 1)))

\* a Library of the names given
LibraryOf(ss) ==
    wire(k_library, Flatten([i \in 1..Len(ss) |-> wire(k_string, ss[i])]))

GlossaryNames == {<<>>, <<Run(97, 1), Run(98, 1)>>, <<Run(98, 1)>>}

\* subtrees <<with Zips, the same without>>: a record inside up to
\* MaxRounds Zips, and Zips among the children of a Container and of a Map
Subtrees ==
    {<<ZipN(x, n), x>> : x \in {AString, Inner, AMap}, n \in 0..MaxRounds}
    \cup {<<x, x>> : x \in {NullRecord, AFlags, ABinary,
                             LibraryOf(<<Run(97, 1), Run(98, 1)>>)}}
    \cup {<<wire(k_container, Flatten(<<ZipN(AString, 1), ZipN(Inner, 1)>>)),
            wire(k_container, Flatten(<<AString, Inner>>))>>,
          <<wire(k_map, EntryBytes(<<<<0, ZipN(Inner, 1)>>>>)),
            wire(k_map, EntryBytes(<<<<0, Inner>>>>))>>}

\* the children of a root <<with Zips, without>>: a subtree alone or after
\* a Null
RecipeRoots ==
    {<<<<t[1]>>, <<t[2]>>>> : t \in Subtrees}
    \cup {<<<<NullRecord, t[1]>>, <<NullRecord, t[2]>>>> : t \in Subtrees}

\* the children of a root that has Libraries among Nulls
LibraryRoots ==
    SeqsUpTo({NullRecord} \cup {LibraryOf(ss) : ss \in GlossaryNames}, MaxKids)

\* an ingredient that is no Container
RecipeLeaves ==
    {NullRecord, AString, LibraryOf(<<Run(97, 1), Run(98, 1)>>), ZipN(Inner, 1)}

\* the paths of Recipe::ngrdnt: up to three steps
Paths == SeqsUpTo(0..MaxKey, 3)

\* Recipe r(c); r.ngrdnt(steps).  cs are the children c was built of and
\* plain is c with every Zip below it replaced by what the Zip holds
RecipeInputs ==
    {[op |-> "recipe", ndebug |-> nd, container |-> TRUE, cs |-> r[1],
      c |-> wire(k_container, Flatten(r[1])),
      plain |-> wire(k_container, Flatten(r[2])), steps |-> p] :
        nd \in BOOLEAN, r \in RecipeRoots, p \in Paths}
    \cup {[op |-> "recipe", ndebug |-> nd, container |-> TRUE, cs |-> cs,
           c |-> wire(k_container, Flatten(cs)),
           plain |-> wire(k_container, Flatten(cs)), steps |-> p] :
            nd \in BOOLEAN, cs \in LibraryRoots, p \in SeqsUpTo(0..MaxKey, 1)}
    \cup {[op |-> "recipe", ndebug |-> nd, container |-> FALSE, cs |-> <<>>,
           c |-> x, plain |-> x, steps |-> p] :
            nd \in BOOLEAN, x \in RecipeLeaves, p \in Paths}

\* Binary records a caller lends: payloads shorter than the hint, the hint
\* alone, and the hint with data
BytesRawInputs ==
    {[op |-> "bytes_raw", ndebug |-> nd, p |-> p,
      buf |-> Cat(wire(k_binary, Run(7, p)), Trailing)] :
        nd \in BOOLEAN, p \in 0..(MaxLen + 4)}

BytesOps == {"bytes", "bytes_raw"}

\* bit vectors: the short ones, a set bit after 7, 8, 2047 and 2048 clear
\* ones, and sixteen set bits
FlagVectors ==
    {Pack(v) : v \in SeqsUpTo({0, 1}, MaxLen)}
    \cup {Cat(Run(0, k), Run(1, 1)) : k \in {7, 8, 2047, 2048}}
    \cup {Run(1, 16)}

FlagsInputs == [op : {"flags"}, v : FlagVectors]

\* a Container that has a Library of its own, one that has none, and one
\* whose Library is empty
OwnLibrary == wire(k_container, Flatten(<<LibraryOf(<<Run(98, 1)>>), Inner>>))
NoLibrary == wire(k_container, Flatten(<<Inner, NullRecord>>))
EmptyLibrary == wire(k_container, Flatten(<<LibraryOf(<<>>), NoLibrary>>))

\* the ingredients of the Recipes recipe() is called on: the three
\* Containers above after a Library, an empty Library or a Null, and a
\* Library alone
ChainRoots ==
    {wire(k_container, Flatten(<<g, OwnLibrary, EmptyLibrary>>)) :
        g \in {LibraryOf(<<Run(97, 1), Run(98, 1)>>), LibraryOf(<<>>),
               NullRecord}}
    \cup {LibraryOf(<<Run(97, 1), Run(98, 1)>>)}

\* the paths of the calls of Recipe::recipe: none or one step, and two
\* steps that reach the Container without a Library
ChainPaths == SeqsUpTo(0..MaxKey, 1) \cup {<<2, 1>>}

\* Recipe r(c); r.recipe(paths[1]).recipe(paths[2])...
ChainInputs ==
    [op : {"chain"}, ndebug : BOOLEAN, c : ChainRoots,
     paths : SeqsUpTo(ChainPaths, MaxRounds) \ {<<>>}]

RecipeOps == {"recipe", "chain"}

ContainerOps == {"container", "container_raw", "container_bad"}
LibraryOps == {"library", "library_raw"}
MapOps == {"map", "map_raw", "map_bad"}

\* the operations on a record the caller lends
RawOps == {"container_raw", "library_raw", "map_raw", "container_bad", "map_bad"}

\* the operations that start from a record in a buffer of the caller
LentOps == RawOps \cup {"zip_raw", "bytes_raw", "loop"}

\* the caller's buffer that Ngrdnt::temp views
BorrowedBuf == 2

-----------------------------------------------------------------------------
(* Specification                                                           *)

\* a std::stringstream nothing was written to
NoStream == [buf |-> <<>>, pos |-> 0, state |-> "good"]

\* the paths of the calls of Recipe::ngrdnt the caller makes, and the one
\* of the call that is next or under way
AllSteps == IF arg.op = "chain" THEN arg.paths ELSE <<arg.steps>>
Steps == AllSteps[Len(res) + 1]

Init ==
    /\ \/ arg \in BuildInputs
       \/ arg \in NullInputs
       \/ arg \in BoolInputs
       \/ arg \in Int32Inputs
       \/ arg \in Int64Inputs
       \/ arg \in Uint64Inputs
       \/ arg \in StringInputs
       \/ arg \in ContainerInputs
       \/ arg \in LibraryInputs
       \/ arg \in MapInputs
       \/ arg \in ContainerRawInputs
       \/ arg \in LibraryRawInputs
       \/ arg \in MapRawInputs
       \/ arg \in ContainerBadInputs
       \/ arg \in MapBadInputs
       \/ arg \in StreamInputs
       \/ arg \in StreamRawInputs
       \/ arg \in ZipInputs
       \/ arg \in ZipRawInputs
       \/ arg \in BytesInputs
       \/ arg \in RecipeInputs
       \/ arg \in ChainInputs
       \/ arg \in FlagsInputs
       \/ arg \in BytesRawInputs
       \/ arg \in ShortStreamInputs
       \/ arg \in LoopInputs
       \/ arg \in CopyInputs
       \/ arg \in XlateInputs
    /\ pc = IF arg.op \in LentOps THEN "raw"
            ELSE IF arg.op \in GivenStreamOps THEN "read"
            ELSE "call"
    /\ mem = IF arg.op \in LentOps THEN Append(make(<<>>).mem, arg.buf)
             ELSE IF arg.op \in GivenStreamOps THEN make(make(<<>>).mem).mem
             ELSE make(<<>>).mem
    /\ ret = IF arg.op \in LentOps THEN <<temp(BorrowedBuf, 0)>> ELSE <<>>
    /\ kids = <<>>
    /\ res = <<>>
    /\ obj = <<>>
    /\ is = IF arg.op \in GivenStreamOps THEN [NoStream EXCEPT !.buf = arg.buf]
            ELSE NoStream
    /\ dest = IF arg.op \in GivenStreamOps THEN <<make(make(<<>>).mem).val>>
              ELSE <<>>
    /\ glossary_ = NoGlossary
    /\ iter = <<>>
    /\ retval = <<>>

\* the callee returned the object r.val
Return(r) ==
    /\ mem' = r.mem
    /\ ret' = Append(ret, r.val)

\* the callee returned, or its assert stopped the program
ReturnOrAbort(r) ==
    IF r.aborted
    THEN pc' = "aborted" /\ UNCHANGED <<mem, ret>>
    ELSE pc' = "raw" /\ Return(r)

\* the records the caller has had encoded
Encoded == {i \in 1..Len(ret) : ret[i].ptr_ # nullptr}

Last(s) == s[Len(s)]

\* build_ngrdnt<IT>(p, &current)
Build ==
    /\ pc = "call" /\ arg.op = "build"
    /\ ret' = <<build_ngrdnt(arg.IT, arg.p)>>
    /\ pc' = "done"
    /\ UNCHANGED <<arg, mem, kids, res>>
    /\ UNCHANGED <<obj, stream_vars, recipe_vars>>

NewNull ==
    /\ pc = "call" /\ arg.op = "null"
    /\ Return(new_ngrdnt_null(mem))
    /\ pc' = "done"
    /\ UNCHANGED <<arg, kids, res>>
    /\ UNCHANGED <<obj, stream_vars, recipe_vars>>

NewBool ==
    /\ pc = "call" /\ arg.op = "bool"
    /\ Return(new_ngrdnt_bool(mem, arg.v))
    /\ pc' = "done"
    /\ UNCHANGED <<arg, kids, res>>
    /\ UNCHANGED <<obj, stream_vars, recipe_vars>>

NewInt32 ==
    /\ pc = "call" /\ arg.op = "int32"
    /\ Return(new_ngrdnt_int32(mem, arg.v))
    /\ pc' = "done"
    /\ UNCHANGED <<arg, kids, res>>
    /\ UNCHANGED <<obj, stream_vars, recipe_vars>>

NewInt64 ==
    /\ pc = "call" /\ arg.op = "int64"
    /\ Return(new_ngrdnt_int64(mem, arg.v))
    /\ pc' = "done"
    /\ UNCHANGED <<arg, kids, res>>
    /\ UNCHANGED <<obj, stream_vars, recipe_vars>>

NewUint64 ==
    /\ pc = "call" /\ arg.op = "uint64"
    /\ Return(new_ngrdnt_uint64(mem, arg.v))
    /\ pc' = "done"
    /\ UNCHANGED <<arg, kids, res>>
    /\ UNCHANGED <<obj, stream_vars, recipe_vars>>

NewString ==
    /\ pc = "call" /\ arg.op = "string"
    /\ Return(new_ngrdnt_string(mem, arg.v))
    /\ pc' = "done"
    /\ UNCHANGED <<arg, kids, res>>
    /\ UNCHANGED <<obj, stream_vars, recipe_vars>>

\* kids[i] = new_ngrdnt(...); Container obj(std::move(kids))
ContainerAdopt ==
    /\ pc = "call" /\ arg.op = "container"
    /\ mem' = mem \o arg.cs
    /\ kids' = [i \in 1..Len(arg.cs) |->
                   [ptr_ |-> Len(mem) + i,
                    data_ |-> [buf |-> Len(mem) + i, off |-> 0]]]
    /\ pc' = "have"
    /\ UNCHANGED <<arg, ret, res>>
    /\ UNCHANGED <<obj, stream_vars, recipe_vars>>

\* Library l(std::move(c))
LibraryAdopt ==
    /\ pc = "call" /\ arg.op = "library"
    /\ kids' = arg.ss
    /\ pc' = "have"
    /\ UNCHANGED <<arg, mem, ret, res>>
    /\ UNCHANGED <<obj, stream_vars, recipe_vars>>

\* c[k] = new_ngrdnt(...); Map m(std::move(c))
MapAdopt ==
    /\ pc = "call" /\ arg.op = "map"
    /\ LET keys == Ascending(DOMAIN arg.c) IN
        /\ mem' = mem \o [i \in 1..Len(keys) |-> arg.c[keys[i]]]
        /\ kids' = [k \in DOMAIN arg.c |->
                       LET i == CHOOSE i \in 1..Len(keys) : keys[i] = k IN
                       [ptr_ |-> Len(mem) + i,
                        data_ |-> [buf |-> Len(mem) + i, off |-> 0]]]
    /\ pc' = "have"
    /\ UNCHANGED <<arg, ret, res>>
    /\ UNCHANGED <<obj, stream_vars, recipe_vars>>

ContainerEncode ==
    /\ pc = "have" /\ arg.op \in ContainerOps
    /\ Cardinality(Encoded) < MaxRounds
    /\ ReturnOrAbort(new_ngrdnt_Container(mem, kids, arg.ndebug))
    /\ UNCHANGED <<arg, kids, res>>
    /\ UNCHANGED <<obj, stream_vars, recipe_vars>>

LibraryEncode ==
    /\ pc = "have" /\ arg.op \in LibraryOps
    /\ Cardinality(Encoded) < MaxRounds
    /\ ReturnOrAbort(new_ngrdnt_Library(mem, kids, arg.ndebug))
    /\ UNCHANGED <<arg, kids, res>>
    /\ UNCHANGED <<obj, stream_vars, recipe_vars>>

MapEncode ==
    /\ pc = "have" /\ arg.op \in MapOps
    /\ Cardinality(Encoded) < MaxRounds
    /\ ReturnOrAbort(new_ngrdnt_Map(mem, kids, arg.ndebug))
    /\ UNCHANGED <<arg, kids, res>>
    /\ UNCHANGED <<obj, stream_vars, recipe_vars>>

\* Container obj(raw)
ContainerDecode ==
    /\ pc = "raw" /\ arg.op \in ContainerOps
    /\ LET r == Basic_container("Ngrdnt", mem, Last(ret)) IN
        /\ mem' = r.mem
        /\ kids' = r.children
    /\ pc' = "have"
    /\ UNCHANGED <<arg, ret, res>>
    /\ UNCHANGED <<obj, stream_vars, recipe_vars>>

\* Library l(raw); an exception of to_string leaves the constructor
LibraryDecode ==
    /\ pc = "raw" /\ arg.op \in LibraryOps
    /\ LET r == Basic_container("string", mem, Last(ret)) IN
        IF \E i \in 1..Len(r.children) : r.children[i] = length_error
        THEN pc' = "thrown" /\ UNCHANGED <<mem, kids>>
        ELSE pc' = "have" /\ mem' = r.mem /\ kids' = r.children
    /\ UNCHANGED <<arg, ret, res>>
    /\ UNCHANGED <<obj, stream_vars, recipe_vars>>

\* Map m(raw)
MapDecode ==
    /\ pc = "raw" /\ arg.op \in MapOps
    /\ LET r == Map_raw(mem, Last(ret), arg.ndebug) IN
        IF r.aborted
        THEN pc' = "aborted" /\ UNCHANGED <<mem, kids>>
        ELSE pc' = "have" /\ mem' = r.mem /\ kids' = r.children
    /\ UNCHANGED <<arg, ret, res>>
    /\ UNCHANGED <<obj, stream_vars, recipe_vars>>

\* Container, Library or Map obj(raw) up to its loop
LoopBegin ==
    /\ pc = "raw" /\ arg.op = "loop"
    /\ LET raw == Last(ret)
           d == data(mem, raw)
           header_size == ngrdnt_header_size(Byte(d, 0))
       IN  /\ obj' = [ptr |-> raw.data_.off + header_size,
                      end |-> raw.data_.off + size(d), n |-> 0]
           /\ pc' = IF arg.IT = k_map /\ ~arg.ndebug /\ ~(size(d) >= header_size)
                    THEN "aborted" ELSE "loop"
    /\ kids' = <<>>
    /\ UNCHANGED <<arg, mem, ret, res, stream_vars, recipe_vars>>

\* the key, if any, and the record the iteration at ptr reads lie in the
\* caller's buffer
LoopInBounds(buf, ptr, key_size) ==
    /\ ptr + key_size < NBytes(buf)
    /\ InBounds(Drop(buf, ptr + key_size))

\* while (end > ptr), one iteration or the exit.  An iteration that reads
\* past the end of the caller's buffer, and to_string of a clone that has no
\* bytes, which reads past its allocation: the program crashes or goes on
\* with what it read
LoopIter ==
    /\ pc = "loop" /\ arg.op = "loop"
    /\ IF obj.end > obj.ptr /\ ~LoopInBounds(mem[BorrowedBuf], obj.ptr,
                                            IF arg.IT = k_map THEN 4 ELSE 0)
       THEN pc' \in {"crashed", "garbage"} /\ UNCHANGED <<mem, kids, obj>>
       ELSE IF obj.end > obj.ptr
       THEN /\ obj.n < MaxIter
            /\ \E r \in {IF arg.IT = k_map
                          THEN Map_iter(mem, BorrowedBuf, obj.ptr, kids)
                          ELSE Basic_container_iter(
                                   IF arg.IT = k_library THEN "string" ELSE "Ngrdnt",
                                   mem, BorrowedBuf, obj.ptr, kids)} :
                /\ mem' = r.mem
                /\ kids' = r.children
                /\ obj' = [obj EXCEPT !.ptr = r.ptr, !.n = @ + 1]
                /\ IF arg.IT # k_library THEN pc' = "loop"
                   ELSE IF Last(r.children) = length_error THEN pc' = "thrown"
                   ELSE IF Last(r.children) = unread THEN pc' \in {"crashed", "loop"}
                   ELSE pc' = "loop"
       ELSE pc' = "have" /\ UNCHANGED <<mem, kids, obj>>
    /\ UNCHANGED <<arg, ret, res, stream_vars, recipe_vars>>

\* Glossary g(l)
XlateMake ==
    /\ pc = "call" /\ arg.op = "xlate"
    /\ glossary_' = Glossary(arg.l)
    /\ pc' = "glossary"
    /\ UNCHANGED <<arg, mem, ret, kids, res, obj, stream_vars, iter, retval>>

\* xlate(g, names)
XlateString ==
    /\ pc = "glossary" /\ arg.op = "xlate" /\ "names" \in DOMAIN arg
    /\ res' = <<xlate_string(glossary_, arg.names)>>
    /\ pc' = "keys"
    /\ UNCHANGED <<arg, mem, ret, kids, obj, stream_vars, recipe_vars>>

\* xlate(g, keys)
XlateUint32 ==
    /\ pc = "glossary" /\ arg.op = "xlate" /\ "keys" \in DOMAIN arg
    /\ res' = <<xlate_uint32(glossary_, arg.keys)>>
    /\ pc' = "names"
    /\ UNCHANGED <<arg, mem, ret, kids, obj, stream_vars, recipe_vars>>

\* xlate(g, xlate(g, keys))
XlateBack ==
    /\ pc = "names" /\ arg.op = "xlate"
    /\ res' = Append(res, xlate_string(glossary_, res[1]))
    /\ pc' = "back"
    /\ UNCHANGED <<arg, mem, ret, kids, obj, stream_vars, recipe_vars>>

\* the composite that is copied: Container a(std::move(kids)), Map a(...)
\* with child i under the key i - 1, Compressed a(new_ngrdnt(...)), or
\* Recipe a(new_ngrdnt(Container(...))) whose container_ clones nothing
CopyMake ==
    /\ pc = "call" /\ arg.op = "copy"
    /\ LET n == IF arg.T = "Compressed" THEN 1 ELSE Len(arg.cs)
           child(i) == [ptr_ |-> Len(mem) + i,
                        data_ |-> [buf |-> Len(mem) + i, off |-> 0]]
       IN  /\ mem' = mem \o SubSeq(arg.cs, 1, n)
           /\ kids' = IF arg.T = "Compressed" THEN <<>>
                      ELSE IF arg.T = "Map" THEN [k \in 0..(n - 1) |-> child(k + 1)]
                      ELSE [i \in 1..n |-> child(i)]
           /\ obj' = IF arg.T = "Compressed" THEN [child_ |-> child(1)] ELSE <<>>
    /\ pc' = "have"
    /\ UNCHANGED <<arg, ret, res, stream_vars, recipe_vars>>

\* T b(a), or b = a: the defaulted copy constructor and copy assignment
CopyCopy ==
    /\ pc = "have" /\ arg.op = "copy"
    /\ res' = <<IF arg.T = "Compressed" THEN Compressed_copy(obj)
                ELSE [children_ |-> Basic_container_copy(kids)]>>
    /\ pc' = "copied"
    /\ UNCHANGED <<arg, mem, ret, kids, obj, stream_vars, recipe_vars>>

\* through the copy b: b.mutable_children()[i] = new_ngrdnt(x) (or
\* b.mutable_child() = ...), which gives b another Ptr, or
\* *b.mutable_children()[i] = *new_ngrdnt(x), which assigns the Ngrdnt
CopyMutate ==
    /\ pc = "copied" /\ arg.op = "copy"
    /\ \E a \in {adopt(mem, arg.x)} :
          \/ /\ arg.T = "Compressed"
             /\ res' = <<[child_ |-> a.val]>>
             /\ mem' = a.mem
          \/ /\ arg.T = "Compressed"
             /\ mem' = Ngrdnt_assign(a.mem, res[1].child_, a.val)
             /\ UNCHANGED res
          \/ /\ arg.T # "Compressed"
             /\ \E i \in DOMAIN res[1].children_ :
                   /\ res' = <<[children_ |-> [res[1].children_ EXCEPT ![i] = a.val]]>>
                   /\ mem' = a.mem
          \/ /\ arg.T # "Compressed"
             /\ \E i \in DOMAIN res[1].children_ :
                   /\ mem' = Ngrdnt_assign(a.mem, res[1].children_[i], a.val)
                   /\ UNCHANGED res
    /\ pc' = "mutated"
    /\ UNCHANGED <<arg, ret, kids, obj, stream_vars, recipe_vars>>

\* m[key]
MapLookup ==
    /\ pc = "have" /\ arg.op = "map"
    /\ \E key \in 0..(MaxKey + 1) :
        LET r == Map_index(kids, key) IN
        /\ kids' = r.children
        /\ res' = <<[key |-> key, val |-> r.val]>>
    /\ UNCHANGED <<pc, arg, mem, ret>>
    /\ UNCHANGED <<obj, stream_vars, recipe_vars>>

\* the caller overwrites (or frees and reuses) the buffer it lent
Invalidate ==
    /\ pc = "have" /\ arg.op \in RawOps
    /\ mem[BorrowedBuf] = arg.buf
    /\ \E fill \in {0, 1} :
        mem' = [mem EXCEPT ![BorrowedBuf] = Run(fill, NBytes(arg.buf))]
    /\ UNCHANGED <<pc, arg, ret, kids, res>>
    /\ UNCHANGED <<obj, stream_vars, recipe_vars>>

\* Ngrdnt::Ptr val = Ngrdnt::make(); r[i] = new_ngrdnt(...); std::stringstream s
StreamMake ==
    /\ pc = "call" /\ arg.op = "stream"
    /\ mem' = make(mem).mem \o arg.rs
    /\ dest' = <<make(mem).val>>
    /\ kids' = [i \in 1..Len(arg.rs) |->
                   [ptr_ |-> Len(mem) + 1 + i,
                    data_ |-> [buf |-> Len(mem) + 1 + i, off |-> 0]]]
    /\ pc' = IF arg.rs = <<>> THEN "read" ELSE "write"
    /\ UNCHANGED <<arg, ret, res, obj, is, recipe_vars>>

\* s << r[i], for the records in order
StreamWrite ==
    /\ pc = "write" /\ arg.op = "stream"
    /\ is' = insert(is, data(mem, Head(kids)))
    /\ kids' = Tail(kids)
    /\ pc' = IF Tail(kids) = <<>> THEN "read" ELSE "write"
    /\ UNCHANGED <<arg, mem, ret, res, obj, dest, recipe_vars>>

\* s >> val, until the stream is not good or the program stops.  After the
\* undefined behaviour of the overflowing memcpy the program crashes or goes
\* on to the payload read, which fails
StreamRead ==
    /\ pc = "read" /\ arg.op \in StreamOps
    /\ \E r \in {extract(is, mem, dest[1], arg.ndebug)} :
        /\ is' = r.is
        /\ mem' = r.mem
        /\ dest' = <<r.val>>
        /\ ret' = IF r.outcome = "ok" THEN Append(ret, r.val) ELSE ret
        /\ IF r.outcome = "ub"
           THEN pc' \in {"crashed", "thrown"}
           ELSE pc' = (IF r.outcome = "ok" THEN "read" ELSE r.outcome)
    /\ UNCHANGED <<arg, kids, res, obj, recipe_vars>>

\* Compressed c(new_ngrdnt(...))
ZipAdopt ==
    /\ pc = "call" /\ arg.op = "zip"
    /\ mem' = adopt(mem, arg.x).mem
    /\ obj' = [child_ |-> adopt(mem, arg.x).val]
    /\ pc' = "have"
    /\ UNCHANGED <<arg, ret, kids, res, stream_vars, recipe_vars>>

\* new_ngrdnt(c).  A child_ whose allocation is shorter than its header
\* or its size() is read past its end: the program crashes or goes on with
\* whatever bytes it found
ZipEncode ==
    /\ pc = "have" /\ arg.op \in ZipOps
    /\ Cardinality(Encoded) < MaxRounds
    /\ IF InBounds(data(mem, obj.child_))
       THEN Return(new_ngrdnt_Compressed(mem, obj.child_)) /\ pc' = "raw"
       ELSE pc' \in {"crashed", "garbage"} /\ UNCHANGED <<mem, ret>>
    /\ UNCHANGED <<arg, kids, res, obj, stream_vars, recipe_vars>>

\* Compressed c(raw).  When data_size wrapped the primitives read past the
\* record: the program crashes or an assert stops it
ZipDecode ==
    /\ pc = "raw" /\ arg.op \in ZipOps
    /\ \E garbage \in 0..MaxLen :
        \E r \in {Compressed_raw(mem, Last(ret), arg.ndebug, garbage)} :
        IF r.outcome = "ok"
        THEN pc' = "have" /\ mem' = r.mem /\ obj' = [child_ |-> r.child_]
        ELSE /\ IF r.outcome = "ub" THEN pc' \in {"crashed", "aborted"}
                ELSE pc' = r.outcome
             /\ UNCHANGED <<mem, obj>>
    /\ UNCHANGED <<arg, ret, kids, res, stream_vars, recipe_vars>>

\* Bytes b(std::move(v), v_sz), v holding the hint and the data
BytesAdopt ==
    /\ pc = "call" /\ arg.op = "bytes"
    /\ obj' = Bytes_adopt(Cat(Pack(ToLE(arg.h, 4)), arg.d), 4 + NBytes(arg.d))
    /\ pc' = "have"
    /\ UNCHANGED <<arg, mem, ret, kids, res, stream_vars, recipe_vars>>

\* new_ngrdnt(b)
BytesEncode ==
    /\ pc = "have" /\ arg.op = "bytes"
    /\ Cardinality(Encoded) < MaxRounds
    /\ Return(new_ngrdnt_Bytes(mem, obj))
    /\ pc' = "raw"
    /\ UNCHANGED <<arg, kids, res, obj, stream_vars, recipe_vars>>

\* Bytes b(raw)
BytesDecode ==
    /\ pc = "raw" /\ arg.op \in BytesOps
    /\ LET r == Bytes_raw(data(mem, Last(ret))) IN
        IF r.thrown THEN pc' = "thrown" /\ UNCHANGED obj
        ELSE pc' = "have" /\ obj' = r.val
    /\ UNCHANGED <<arg, mem, ret, kids, res, stream_vars, recipe_vars>>

\* new_ngrdnt(v) of a std::vector<bool>
NewFlags ==
    /\ pc = "call" /\ arg.op = "flags"
    /\ Return(new_ngrdnt_flags(mem, arg.v))
    /\ pc' = "done"
    /\ UNCHANGED <<arg, kids, res, obj, stream_vars, recipe_vars>>

\* to_flags(raw)
ToFlags ==
    /\ pc = "done" /\ arg.op = "flags"
    /\ \E r \in {to_flags(data(mem, Last(ret)))} :
        IF r.thrown THEN pc' = "thrown" /\ UNCHANGED res
        ELSE pc' = "flags" /\ res' = <<r.val>>
    /\ UNCHANGED <<arg, mem, ret, kids, obj, stream_vars, recipe_vars>>

\* Recipe r(std::move(c))
RecipeMake ==
    /\ pc = "call" /\ arg.op \in RecipeOps
    /\ \E a \in {adopt(mem, arg.c)} :
       \E r \in {Recipe(a.mem, a.val)} :
           /\ mem' = r.mem
           /\ ret' = <<a.val>>
           /\ kids' = r.children
           /\ glossary_' = r.glossary_
           /\ pc' = IF r.thrown THEN "thrown" ELSE "recipe"
    /\ UNCHANGED <<arg, res, obj, stream_vars, iter, retval>>

\* r.ngrdnt(steps) up to the loop.  container_[*iter] with *iter past the
\* last child reads past the vector: the program crashes or goes on with
\* whatever pointer it found
NgrdntBegin ==
    /\ pc = "recipe" /\ arg.op \in RecipeOps
    /\ Len(res) < Len(AllSteps)
    /\ \E b \in {ngrdnt_begin(kids, Steps)} :
        IF b.outcome = "ub"
        THEN pc' \in {"crashed", "garbage"} /\ UNCHANGED <<iter, retval>>
        ELSE /\ pc' = IF b.outcome = "return" THEN "found" ELSE "nav"
             /\ retval' = <<b.val>>
             /\ iter' = b.steps
    /\ UNCHANGED <<arg, mem, ret, kids, res, obj, stream_vars, glossary_>>

\* r.ngrdnt(steps), one pass of the loop
NgrdntStep ==
    /\ pc = "nav" /\ iter # <<>>
    /\ \E garbage \in 0..MaxLen :
        \E s \in {ngrdnt_step(mem, retval[1], iter, arg.ndebug, garbage)} :
        /\ pc' = IF s.outcome = "loop" THEN "nav"
                 ELSE IF s.outcome = "return" THEN "found"
                 ELSE s.outcome
        /\ mem' = s.mem
        /\ retval' = <<s.val>>
        /\ iter' = s.steps
    /\ UNCHANGED <<arg, ret, kids, res, obj, stream_vars, glossary_>>

\* r.ngrdnt(steps): iter == steps.end(), return retval
NgrdntReturn ==
    /\ pc = "nav" /\ iter = <<>>
    /\ pc' = "found"
    /\ UNCHANGED <<arg, mem, ret, kids, res, obj, stream_vars, recipe_vars>>

\* r.recipe(steps) once ngrdnt(steps) returned: the sub-Recipe takes the
\* place of r for the next call.  res keeps the record each sub-Recipe was
\* made of and the Glossary of the Recipe it was made from
RecipeRecipe ==
    /\ pc = "found" /\ arg.op = "chain"
    /\ \E r \in {Recipe_recipe(mem, retval[1], glossary_)} :
        /\ mem' = r.mem
        /\ kids' = r.children
        /\ glossary_' = r.glossary_
        /\ pc' = IF r.thrown THEN "thrown" ELSE "recipe"
    /\ res' = Append(res, [found |-> retval[1], glossary_ |-> glossary_])
    /\ iter' = <<>>
    /\ retval' = <<>>
    /\ UNCHANGED <<arg, ret, obj, stream_vars>>

Next ==
    \/ Build
    \/ NewNull
    \/ NewBool
    \/ NewInt32
    \/ NewInt64
    \/ NewUint64
    \/ NewString
    \/ ContainerAdopt
    \/ LibraryAdopt
    \/ MapAdopt
    \/ ContainerEncode
    \/ LibraryEncode
    \/ MapEncode
    \/ ContainerDecode
    \/ LibraryDecode
    \/ MapDecode
    \/ MapLookup
    \/ XlateMake
    \/ XlateString
    \/ XlateUint32
    \/ XlateBack
    \/ CopyMake
    \/ CopyCopy
    \/ CopyMutate
    \/ LoopBegin
    \/ LoopIter
    \/ Invalidate
    \/ StreamMake
    \/ StreamWrite
    \/ StreamRead
    \/ ZipAdopt
    \/ ZipEncode
    \/ ZipDecode
    \/ BytesAdopt
    \/ BytesEncode
    \/ BytesDecode
    \/ RecipeMake
    \/ NgrdntBegin
    \/ NgrdntStep
    \/ NgrdntReturn
    \/ RecipeRecipe
    \/ NewFlags
    \/ ToFlags

Spec == Init /\ [][Next]_vars

-----------------------------------------------------------------------------
(* Claims                                                                  *)

\* the program stopped in a failure: an assert aborted it or an exception
\* left the call
Failed == pc \in {"aborted", "thrown"}

(* C1: for every payload length p the record built by build_ngrdnt with    *)
(* the size class size_type_necessary(p) stores the total record size in   *)
(* its length field: size() of the built record is p + 1 + size_size.      *)
C1_SizeIsTotal ==
    (pc = "done" /\ arg.op = "build") =>
        size(ret[1].ptr) = arg.p + 1 + size_size(size_type_necessary(arg.p))

(* C2: scalar round trip: new_ngrdnt(v) has the Kind of v's type and the   *)
(* matching decoder applied to it returns v, for null, bool, int32, int64, *)
(* uint64 and string values.                                               *)
C2_ScalarRoundTrip ==
    (pc = "done" /\ arg.op \in {"null", "bool", "int32", "int64", "uint64", "string"}) =>
        LET d == data(mem, ret[1])
            kind == ngrdnt_type(Byte(d, 0))
        IN  /\ arg.op = "null" => kind = k_null /\ is_null(d)
            /\ arg.op = "bool" =>
                /\ kind = IF arg.v THEN k_true ELSE k_false
                /\ to_bool(d) = arg.v
            /\ arg.op = "int32" => kind = k_int32 /\ to_int32(d) = arg.v
            /\ arg.op = "int64" => kind = k_int64 /\ to_int64(d) = arg.v
            /\ arg.op = "uint64" => kind = k_uint64 /\ to_uint64(d) = arg.v
            /\ arg.op = "string" => kind = k_string /\ to_string(d) = arg.v

(* C3: container round trip: new_ngrdnt(Container(cs)) is a Container-kind *)
(* header sized for the sum of the children's size() followed by the       *)
(* children's bytes in order, and Container(raw) of it yields |cs|         *)
(* children, the i-th byte-identical to cs[i].                             *)
C3_ContainerRoundTrip ==
    (arg.op = "container" /\ Len(ret) >= 1) =>
        LET d == data(mem, ret[1])
            S == SumLen(arg.cs)
            header_size == ngrdnt_header_size(Byte(d, 0))
        IN  /\ ~Failed
            /\ ngrdnt_type(Byte(d, 0)) = k_container
            /\ size(d) = header_size + S
            /\ Read(d, header_size, S) = Flatten(arg.cs)
            /\ pc = "have" =>
                /\ Len(kids) = Len(arg.cs)
                /\ \A i \in 1..Len(arg.cs) :
                       Read(data(mem, kids[i]), 0, NBytes(arg.cs[i])) = arg.cs[i]

\* what the children of the composite held contribute to its payload
ChildrenSize ==
    IF arg.op \in ContainerOps
    THEN SumLen([i \in 1..Len(kids) |-> record(data(mem, kids[i]))])
    ELSE IF arg.op \in LibraryOps
    THEN SumLen([i \in 1..Len(kids) |-> wire(k_string, kids[i])])
    ELSE LET keys == Ascending(DOMAIN kids) IN
         SumLen([i \in 1..Len(keys) |-> record(data(mem, kids[keys[i]]))])
             + 4 * Len(keys)

(* C4: composite tiling: the payload length (size() minus header width) of *)
(* a record produced by new_ngrdnt(Container), new_ngrdnt(Library) or      *)
(* new_ngrdnt(Map) is the sum of the children's size() plus 4 bytes per    *)
(* Map entry.                                                              *)
C4_CompositeTiling ==
    (/\ arg.op \in {"container", "library", "map"} \cup RawOps
     /\ pc = "raw" /\ Encoded # {}) =>
        LET d == data(mem, Last(ret)) IN
        size(d) - ngrdnt_header_size(Byte(d, 0)) = ChildrenSize

(* C5: deep copy on decode: when the buffer a Container, Library or Map    *)
(* was decoded from is overwritten, no child has its data pointer in that  *)
(* buffer and every child reads back the bytes it read before.             *)
C5_DeepCopyOnDecode ==
    [][(arg.op \in RawOps /\ mem'[BorrowedBuf] # mem[BorrowedBuf]) =>
          /\ kids' = kids
          /\ arg.op # "library_raw" =>
                \A k \in DOMAIN kids :
                    /\ kids[k].data_.buf # BorrowedBuf
                    /\ data(mem', kids[k]) = data(mem, kids[k])]_vars

C5_Witness ==
    /\ arg.op \in {"container_raw", "map_raw"}
    /\ pc = "have"
    /\ mem[BorrowedBuf] # arg.buf
    /\ DOMAIN kids # {}

\* the index of the last entry of the wire payload that has the key k
LastEntry(k) ==
    CHOOSE i \in 1..Len(arg.entries) :
        /\ arg.entries[i][1] = k
        /\ \A j \in (i + 1)..Len(arg.entries) : arg.entries[j][1] # k

(* C6: Map decode resolves duplicate keys last-wins: the decoded Map holds *)
(* one entry per key of the payload and its value is the child of the last *)
(* entry of the payload that has the key.                                  *)
C6_DuplicateKeysLastWins ==
    (arg.op = "map_raw" /\ pc = "have" /\ Encoded = {}) =>
        /\ DOMAIN kids = {arg.entries[i][1] : i \in 1..Len(arg.entries)}
        /\ \A k \in DOMAIN kids :
               record(data(mem, kids[k])) = arg.entries[LastEntry(k)][2]

\* the bytes of the i-th record returned
m_bytes(i) == data(mem, ret[i])

\* the keys of the entries of a Map payload, in wire order
RECURSIVE WireKeys(_)
WireKeys(payload) ==
    IF payload = <<>> THEN <<>>
    ELSE LET child == Drop(payload, 4) IN
         <<FromLE(Unpack(Read(payload, 0, 4)))>>
         \o WireKeys(Drop(payload, 4 + NBytes(record(child))))

(* C7: Map encode is canonical: new_ngrdnt(Map) emits its entries in       *)
(* strictly ascending key order, so encoding the decoded Map of an encoded *)
(* Map gives the same record again: encode(decode(encode(decode(b)))) =    *)
(* encode(decode(b)).                                                      *)
C7_MapEncodeCanonical ==
    (arg.op = "map_raw") =>
        /\ ~Failed
        /\ \A e \in Encoded :
               LET d == m_bytes(e)
                   keys == WireKeys(Drop(d, ngrdnt_header_size(Byte(d, 0))))
               IN  \A i \in 1..(Len(keys) - 1) : keys[i] < keys[i + 1]
        /\ \A e1, e2 \in Encoded : m_bytes(e1) = m_bytes(e2)

(* C8: Map lookup never fails: m[k] returns the stored child when k is     *)
(* present and otherwise the shared k_not_found sentinel, a 1-byte Null    *)
(* record; the lookup does not insert k or change m.                       *)
C8_LookupTotal ==
    [][(arg.op = "map" /\ res' # res) =>
          /\ kids' = kids
          /\ mem' = mem
          /\ IF res'[1].key \in DOMAIN kids
             THEN res'[1].val = kids[res'[1].key]
             ELSE /\ res'[1].val = k_not_found
                  /\ is_null(data(mem', res'[1].val))
                  /\ mem'[res'[1].val.ptr_] = Pack(<<type_marker(k_zero, k_null)>>)]_vars

C8_Witness ==
    /\ arg.op = "map"
    /\ Len(res) = 1
    /\ DOMAIN kids # {}
    /\ res[1].key \notin DOMAIN kids
    /\ res[1].val = k_not_found

(* C9: Library round trip: new_ngrdnt(Library(ss)) is a Library-kind       *)
(* record whose payload is one String record per entry in order, and       *)
(* Library(raw) of it yields the same strings in the same order.           *)
C9_LibraryRoundTrip ==
    (arg.op = "library" /\ (Failed \/ Len(ret) >= 1)) =>
        /\ ~Failed
        /\ Len(ret) >= 1 =>
            LET d == data(mem, ret[1])
                header_size == ngrdnt_header_size(Byte(d, 0))
                payload == Flatten([i \in 1..Len(arg.ss) |->
                                       wire(k_string, arg.ss[i])])
            IN  /\ ngrdnt_type(Byte(d, 0)) = k_library
                /\ size(d) = header_size + NBytes(payload)
                /\ Read(d, header_size, NBytes(payload)) = payload
                /\ pc = "have" => kids = arg.ss

(* C10: decoding a Library record that contains a child whose Kind is not  *)
(* String is a structural error: Library(raw) fails and produces no entry  *)
(* for that child.                                                         *)
C10_NonStringChildFails ==
    (/\ arg.op = "library_raw"
     /\ \E i \in 1..Len(arg.cs) : ngrdnt_type(Byte(arg.cs[i], 0)) # k_string
     /\ pc # "raw") =>
        Failed /\ kids = <<>>

(* C11: decoding reports an error when the cursor would overshoot: when    *)
(* the declared size() of the last child of a Container (or the last entry *)
(* of a Map) extends past the end of the enclosing record, decoding fails  *)
(* and no child is built from bytes beyond the record's end.               *)
C11_OvershootFails ==
    (arg.op \in {"container_bad", "map_bad"} /\ arg.cut > 0 /\ pc # "raw") =>
        Failed /\ kids = <<>>

\* the Kind of the record the object o holds is one of the enumeration
KnownKind(o) == ngrdnt_type(Byte(data(mem, o), 0)) \in Ngrdnt_types

(* C12: an unknown Kind is a decode error: a Container or Map record with  *)
(* a child whose marker's low six bits are not an Ngrdnt_type fails to     *)
(* decode, and neither the composite decoders nor the stream read yield a  *)
(* record of unknown Kind.                                                 *)
C12_UnknownKindRejected ==
    /\ (arg.op \in {"container_bad", "map_bad"} /\ arg.cut = 0 /\ pc # "raw") =>
           /\ Failed
           /\ \A k \in DOMAIN kids : KnownKind(kids[k])
    /\ arg.op = "stream_raw" => \A i \in 1..Len(ret) : KnownKind(ret[i])

(* C16: stream records are self-delimiting and ordered: after the records  *)
(* r1..rk were written with operator<<, the reads return records           *)
(* byte-identical to r1..rk in that order, each read consumes exactly the  *)
(* bytes of its record, and the stream ends after the k-th.                *)
C16_StreamOrdered ==
    arg.op = "stream" =>
        /\ ~Failed
        /\ Len(ret) <= Len(arg.rs)
        /\ \A i \in 1..Len(ret) : data(mem, ret[i]) = arg.rs[i]
        /\ pc = "read" => is.pos = SumLen(SubSeq(arg.rs, 1, Len(ret)))
        /\ pc = "eos" => Len(ret) = Len(arg.rs)

\* the records of the stream that are complete
Complete == IF arg.cut = 0 THEN Len(arg.rs) ELSE Len(arg.rs) - 1

(* C17: a truncated stream is a hard error without partial construction:   *)
(* operator>> returns the complete records in order, throws when the       *)
(* stream ends inside a record after its marker byte, only reports the end *)
(* of the stream when it ends between records, and in each failing or      *)
(* end-of-stream outcome the destination keeps the record it held.         *)
C17_TruncatedStreamFails ==
    [][(arg.op = "stream_raw" /\ pc = "read") =>
          /\ pc' = "read" =>
                /\ Len(ret) < Complete
                /\ data(mem', dest'[1]) = arg.rs[Len(ret')]
          /\ pc' = "thrown" <=> (Len(ret) = Complete /\ arg.cut > 0)
          /\ pc' = "eos" <=> (Len(ret) = Complete /\ arg.cut = 0)
          /\ pc' # "read" =>
                /\ dest' = dest
                /\ data(mem', dest'[1]) = data(mem, dest[1])]_vars

C17_Witness ==
    /\ arg.op = "stream_raw"
    /\ pc = "thrown"
    /\ arg.cut > 0
    /\ Len(ret) >= 1
    /\ data(mem, dest[1]) = arg.rs[Len(ret)]

(* C13: Zip transparency: new_ngrdnt(Compressed(x)) is a Zip-kind record   *)
(* whose payload is exactly the compressed bytes of x's full record, and   *)
(* Compressed(raw) of it has a child byte-for-byte identical to x.         *)
C13_ZipTransparency ==
    (arg.op = "zip" /\ (Len(ret) >= 1 \/ pc # "have")) =>
        /\ ~Failed /\ pc # "crashed"
        /\ Len(ret) >= 1 =>
            LET d == data(mem, ret[1])
                header_size == ngrdnt_header_size(Byte(d, 0))
                compressed == RawCompress(arg.x)
            IN  /\ ngrdnt_type(Byte(d, 0)) = k_zip
                /\ size(d) = header_size + NBytes(compressed)
                /\ Read(d, header_size, NBytes(compressed)) = compressed
                /\ pc = "have" =>
                       Read(data(mem, obj.child_), 0, NBytes(arg.x)) = arg.x

(* C14: Zip decode fails on bad input: when Snappy reports a failure or    *)
(* its output is not a valid record, Compressed(raw) fails and no          *)
(* Compressed value with a child built from that output is produced.       *)
C14_BadZipFails ==
    (arg.op = "zip_raw" /\ arg.bad /\ pc # "raw") =>
        Failed /\ obj = <<>>

(* C15: Bytes framing: new_ngrdnt(b) of a Bytes with marshal hint h and    *)
(* data d is a Binary-kind record of size header width + 4 + |d| whose     *)
(* payload is h as uint32 little-endian followed by d, and Bytes(raw) of   *)
(* it has marshal_hint() = h, size() = |d| and the same data.              *)
C15_BytesFraming ==
    (arg.op = "bytes" /\ (Len(ret) >= 1 \/ Failed)) =>
        /\ ~Failed
        /\ LET d == data(mem, ret[1])
               header_size == ngrdnt_header_size(Byte(d, 0))
           IN  /\ ngrdnt_type(Byte(d, 0)) = k_binary
               /\ size(d) = header_size + 4 + NBytes(arg.d)
               /\ Read(d, header_size, 4) = Pack(ToLE(arg.h, 4))
               /\ Read(d, header_size + 4, NBytes(arg.d)) = arg.d
        /\ pc = "have" =>
               /\ marshal_hint(obj) = arg.h
               /\ obj.size_ = NBytes(arg.d)
               /\ Bytes_data(obj) = arg.d


\* the children Recipe(c) is to have: those of c when c is a Container,
\* else c alone
RecipeRoot == IF arg.container THEN arg.cs ELSE <<arg.c>>

\* the positions of the Library records among the top-level children
Libraries ==
    {i \in 1..Len(RecipeRoot) :
        RecipeRoot[i] \in {LibraryOf(ss) : ss \in GlossaryNames}}

\* the names the first Library was made of, none when there is no Library
FirstNames ==
    IF Libraries = {} THEN <<>>
    ELSE LET i == CHOOSE k \in Libraries : \A j \in Libraries : k <= j
         IN  CHOOSE ss \in GlossaryNames : LibraryOf(ss) = RecipeRoot[i]

\* C18: once Recipe(c) is constructed its root holds the children of c
\* when c is a Container and c alone otherwise, and the names of its
\* Glossary are the strings of the first Library among the root's
\* children, in order and each at its index; they are empty when no child
\* is a Library.
C18_GlossaryExtraction ==
    (arg.op = "recipe" /\ pc # "call") =>
        /\ pc # "thrown"
        /\ Len(kids) = Len(RecipeRoot)
        /\ \A i \in 1..Len(kids) : record(data(mem, kids[i])) = RecipeRoot[i]
        /\ glossary_.names = FirstNames
        /\ DOMAIN glossary_.index = {FirstNames[h] : h \in 1..Len(FirstNames)}
        /\ \A h \in 1..Len(FirstNames) :
              glossary_.index[FirstNames[h]] = h - 1

\* a Recipe of a Container whose two children are Libraries of different
\* names is constructed and its Glossary has the names of the first
C18_Witness ==
    /\ arg.op = "recipe" /\ pc = "recipe"
    /\ arg.container
    /\ arg.cs = <<LibraryOf(<<Run(98, 1)>>), LibraryOf(<<Run(97, 1), Run(98, 1)>>)>>
    /\ glossary_.names = <<Run(98, 1)>>

\* C19: in Recipe::ngrdnt with a non-empty path, whenever the current value
\* is a Container, the root at the first step included, and the step is not
\* below its number of children, the call returns k_not_found, and no step
\* of the call reads out of bounds.
C19_StepInRange ==
    [][arg.op = "recipe" =>
          /\ (pc = "recipe" /\ arg.steps # <<>>
                /\ Head(arg.steps) >= Len(kids)) =>
                (pc' = "found" /\ retval' = <<k_not_found>>)
          /\ (pc = "nav" /\ iter # <<>>
                /\ ngrdnt_type(Byte(data(mem, retval[1]), 0)) = k_container
                /\ Head(iter) >= Len(Basic_container("Ngrdnt", mem, retval[1]).children)) =>
                (pc' = "found" /\ retval' = <<k_not_found>>)
          /\ pc' \notin {"crashed", "garbage"}]_vars

\* the number of Zip records d is nested in
RECURSIVE ZipDepth(_)
ZipDepth(d) ==
    IF ngrdnt_type(Byte(d, 0)) # k_zip THEN 0
    ELSE LET header_size == ngrdnt_header_size(Byte(d, 0))
         IN  1 + ZipDepth(RawUncompress(Read(d, header_size,
                                             size(d) - header_size)).out)

\* the record d with every Zip in it replaced by the record it holds
RECURSIVE Plain(_), PlainChildren(_), PlainEntries(_)
Plain(d) ==
    LET t == ngrdnt_type(Byte(d, 0))
        header_size == ngrdnt_header_size(Byte(d, 0))
        payload == Read(d, header_size, size(d) - header_size)
    IN  IF t = k_zip THEN Plain(RawUncompress(payload).out)
        ELSE IF t = k_container THEN wire(k_container, PlainChildren(payload))
        ELSE IF t = k_map THEN wire(k_map, PlainEntries(payload))
        ELSE record(d)
PlainChildren(x) ==
    IF NBytes(x) = 0 THEN <<>>
    ELSE Cat(Plain(x), PlainChildren(Drop(x, size(x))))
PlainEntries(x) ==
    IF NBytes(x) = 0 THEN <<>>
    ELSE Cat(Cat(Take(x, 4), Plain(Drop(x, 4))),
             PlainEntries(Drop(x, 4 + size(Drop(x, 4)))))

\* what Recipe(c).ngrdnt(steps) returns, computed in one piece
navigate(c, steps, ndebug) ==
    LET a == adopt(make(<<>>).mem, c)
        r == Recipe(a.mem, a.val)
        n == Recipe_ngrdnt(r.mem, r.children, steps, ndebug)
    IN  [outcome |-> n.outcome, val |-> record(data(n.mem, n.val))]

\* C20: in Recipe::ngrdnt, a pass of the loop that finds a Zip with a step
\* pending goes on with the record the Zip holds, one Zip less deep, and
\* the same steps; every other pass that goes on has one step less; and
\* the record the call returns is, but for the Zips that record itself
\* still holds, the one the same path returns in the Recipe of the
\* ingredient without the Zips among its descendants.
C20_ZipTransparent ==
    [][arg.op = "recipe" =>
          /\ (pc = "nav" /\ iter # <<>>
                /\ ngrdnt_type(Byte(data(mem, retval[1]), 0)) = k_zip) =>
                /\ pc' = "nav"
                /\ iter' = iter
                /\ ZipDepth(data(mem', retval'[1]))
                     = ZipDepth(data(mem, retval[1])) - 1
          /\ (pc = "nav" /\ pc' = "nav"
                /\ ngrdnt_type(Byte(data(mem, retval[1]), 0)) # k_zip) =>
                Len(iter') = Len(iter) - 1
          /\ pc' = "found" =>
                /\ navigate(arg.plain, arg.steps, arg.ndebug).outcome = "return"
                /\ Plain(data(mem', retval'[1]))
                     = Plain(navigate(arg.plain, arg.steps, arg.ndebug).val)]_vars

\* the path <<1, 0>> found the String inside the Container that MaxRounds
\* Zips hold as the second child of the root
C20_Witness ==
    /\ arg.op = "recipe" /\ pc = "found"
    /\ arg.cs = <<NullRecord, ZipN(Inner, MaxRounds)>>
    /\ arg.steps = <<1, 0>>
    /\ record(data(mem, retval[1])) = AString


\* C28: Recipe::ngrdnt of the empty path returns k_not_found, whatever the
\* root holds, and the Recipe that Recipe::recipe makes of the empty path
\* has a root of exactly one child, a Null.
C28_EmptyPathDeadEnd ==
    [][(arg.op \in RecipeOps /\ Len(res) < Len(AllSteps) /\ Steps = <<>>) =>
          /\ pc = "recipe" =>
                (pc' = "found" /\ retval' = <<k_not_found>>)
          /\ pc = "found" =>
                /\ pc' = "recipe"
                /\ Len(kids') = 1
                /\ data(mem', kids'[1]) = NullRecord]_vars

\* recipe() of the empty path was called on a Recipe whose root has three
\* children and gave a Recipe of one Null
C28_Witness ==
    /\ arg.op = "chain" /\ pc = "recipe"
    /\ arg.c \in ChainRoots \ {LibraryOf(<<Run(97, 1), Run(98, 1)>>)}
    /\ arg.paths = <<<<>>>>
    /\ Len(res) = 1
    /\ Len(kids) = 1
    /\ data(mem, kids[1]) = NullRecord

\* C29: in Recipe::ngrdnt, when no step is left the call returns the
\* current record as it is, a Zip included; a Zip is replaced by the record
\* it holds only in a pass that has a step left; and a pass that has a
\* step left and finds a record that is no Container, Map or Zip returns
\* k_not_found.
C29_PathEndsOnZip ==
    [][(arg.op \in RecipeOps /\ pc = "nav") =>
          /\ iter = <<>> => (pc' = "found" /\ retval' = retval /\ mem' = mem)
          /\ (ngrdnt_type(Byte(data(mem, retval[1]), 0)) = k_zip
                /\ retval' # retval) => iter # <<>>
          /\ (iter # <<>>
                /\ ngrdnt_type(Byte(data(mem, retval[1]), 0))
                     \notin {k_container, k_map, k_zip}) =>
                (pc' = "found" /\ retval' = <<k_not_found>>)]_vars

\* the path <<0>> selected the Zip that is the only child of the root and
\* the call returned that Zip
C29_Witness ==
    /\ arg.op = "recipe" /\ pc = "found"
    /\ arg.cs = <<ZipN(Inner, 1)>>
    /\ arg.steps = <<0>>
    /\ record(data(mem, retval[1])) = ZipN(Inner, 1)

\* a step was left at a Binary record and the call returned k_not_found
C29_WitnessLeaf ==
    /\ arg.op = "recipe" /\ pc = "found"
    /\ arg.cs = <<ABinary>>
    /\ arg.steps = <<0, 0>>
    /\ retval = <<k_not_found>>

\* the records laid one after the other in x
RECURSIVE Split(_)
Split(x) ==
    IF NBytes(x) = 0 THEN <<>>
    ELSE <<Take(x, size(x))>> \o Split(Drop(x, size(x)))

\* the bytes of the record d after its header
PayloadOf(d) ==
    Drop(record(d), ngrdnt_header_size(Byte(d, 0)))

\* the root a Recipe of the record d is to have
RootOf(d) ==
    IF ngrdnt_type(Byte(d, 0)) = k_container THEN Split(PayloadOf(d))
    ELSE <<record(d)>>

\* the strings of the first Library among the records cs, none when there
\* is no Library
RECURSIVE NamesOf(_)
NamesOf(cs) ==
    IF cs = <<>> THEN <<>>
    ELSE IF ngrdnt_type(Byte(Head(cs), 0)) = k_library
    THEN [h \in 1..Len(Split(PayloadOf(Head(cs)))) |->
             PayloadOf(Split(PayloadOf(Head(cs)))[h])]
    ELSE NamesOf(Tail(cs))

\* C21: the Recipe that Recipe::recipe makes of the record ngrdnt returned
\* has the root of a Recipe of that record; its Glossary has the names of
\* the first Library of that root when there is one with a name in it, and
\* otherwise is the Glossary of the Recipe recipe() was called on; so a
\* Recipe made by recipe() from one whose Glossary has a name has a name
\* in its Glossary too.
C21_GlossaryInherited ==
    [][(arg.op = "chain" /\ pc = "found") =>
          /\ pc' = "recipe"
          /\ Len(kids') = Len(RootOf(data(mem, retval[1])))
          /\ \A i \in 1..Len(kids') :
                record(data(mem', kids'[i])) = RootOf(data(mem, retval[1]))[i]
          /\ IF NamesOf(RootOf(data(mem, retval[1]))) # <<>>
             THEN glossary_' = Glossary(NamesOf(RootOf(data(mem, retval[1]))))
             ELSE glossary_' = glossary_
          /\ glossary_.names # <<>> => glossary_'.names # <<>>]_vars

\* the second recipe() of a chain was made of a Container that has no
\* Library and its Recipe has the names of the Library of the first Recipe
C21_Witness ==
    /\ arg.op = "chain" /\ pc = "recipe"
    /\ Len(res) = 2
    /\ NamesOf(RootOf(data(mem, res[1].found))) = <<>>
    /\ NamesOf(RootOf(data(mem, res[2].found))) = <<>>
    /\ glossary_.names = <<Run(97, 1), Run(98, 1)>>


\* C23: the record new_ngrdnt makes of a bit vector v of n bits has a
\* payload of ceil(n / 8) bytes in which bit i & 7 of byte i >> 3 is bit i
\* of v for every i < n, and to_flags of it has 8 * ceil(n / 8) bits, those
\* of v followed by clear ones.
C23_FlagsLayout ==
    (arg.op = "flags" /\ pc # "call") =>
        LET n == NBytes(arg.v)
            d == data(mem, ret[1])
            header_size == ngrdnt_header_size(Byte(d, 0))
            bytes == (n + 7) \div 8
        IN  /\ pc # "thrown"
            /\ ngrdnt_type(Byte(d, 0)) = k_flags
            /\ size(d) - header_size = bytes
            /\ \A i \in 0..(n - 1) :
                  Bit(Byte(d, header_size + (i \div 8)), i % 8) = Byte(arg.v, i)
            /\ pc = "flags" => res[1] = Cat(arg.v, Run(0, 8 * bytes - n))


\* C27: the Bytes decoded from a Binary record r has a size() of r.size()
\* less the header and the four bytes of the hint, which is not below zero
\* (a size_ below zero stands for the value wrapped modulo 2^64) and not
\* above the length of the payload of r.
C27_BytesSizeNoWrap ==
    (arg.op = "bytes_raw" /\ pc # "raw") =>
        /\ pc = "have"
        /\ obj.size_ = arg.p - 4
        /\ 0 <= obj.size_
        /\ obj.size_ <= arg.p


\* what the header at the stream's position declares: whether the marker
\* and the length field could be read, the size class and the total size
declared(s) ==
    LET marker == successful_read_loop(s, 1)
        st == size_type(Byte(marker.bytes, 0))
        len == successful_read_loop(marker.is, size_size(st))
    IN  IF ~marker.ok THEN [ok |-> FALSE, st |-> k_zero, sz |-> 1]
        ELSE IF ~len.ok THEN [ok |-> FALSE, st |-> st, sz |-> 1]
        ELSE [ok |-> TRUE, st |-> st,
              sz |-> IF st = k_zero THEN 1 ELSE FromLE(Unpack(len.bytes))]

\* the header at the stream's position declares less than its own width
ShortHeader(s) ==
    declared(s).ok /\ declared(s).sz < ngrdnt_header_size_st(declared(s).st)

\* C26: operator>> allocates and copies the header only when the declared
\* total size is at least the header width: a header that declares less is
\* rejected by the assert with no buffer written, and a record it returns
\* has a size() of at least its header width.
C26_StreamHeaderFits ==
    [][(pc = "read" /\ arg.op \in StreamOps) =>
          /\ ShortHeader(is) => (pc' = "aborted" /\ mem' = mem /\ ret' = ret)
          /\ ret' # ret =>
                /\ ~ShortHeader(is)
                /\ size(data(mem', Last(ret')))
                       >= ngrdnt_header_size(Byte(data(mem', Last(ret')), 0))]_vars


\* the bytes between the first child and the end of the record being decoded
LoopPayload ==
    size(data(mem, Last(ret))) - ngrdnt_header_size(Byte(data(mem, Last(ret)), 0))

\* C25: Container(raw), Library(raw) and Map(raw) finish in finitely many
\* steps, also when a child's length field reads 0: every iteration of the
\* loop leaves the cursor at least one byte further, so the loop has run at
\* most as many times as the payload has bytes.
C25_DecodeTerminates ==
    [][(arg.op = "loop" /\ pc = "loop" /\ pc' = "loop") =>
          /\ obj'.ptr > obj.ptr
          /\ obj'.n <= LoopPayload]_vars


\* the Ngrdnt::Ptr members of the composite that was copied and of its copy
Original == IF arg.T = "Compressed" THEN <<obj.child_>> ELSE kids
Copy == IF arg.T = "Compressed" THEN <<res[1].child_>> ELSE res[1].children_

\* C24: after a Container, Map, Compressed or Recipe is copy-constructed or
\* copy-assigned, the copy and the original share no child object and no
\* buffer, and after a change made through the copy the children of the
\* original read as they did.
C24_CopiesAreDeep ==
    (arg.op = "copy" /\ pc \in {"copied", "mutated"}) =>
        /\ \A i \in DOMAIN Original : \A j \in DOMAIN Copy :
              /\ Original[i] # Copy[j]
              /\ Original[i].ptr_ # Copy[j].ptr_
        /\ \A i \in DOMAIN Original :
              data(mem, Original[i])
                  = arg.cs[IF arg.T = "Map" THEN i + 1 ELSE i]


\* C22: xlate(g, xs) has as many elements as xs, in the order of xs: the
\* key of a name is a position of that name in the Library and 0 for a name
\* the Library has not, the name of a key is the string at that position
\* and the empty string for a key past the last, and neither call fails.
C22_XlateTotal ==
    (arg.op = "xlate" /\ pc \in {"keys", "names"}) =>
        /\ pc = "keys" =>
              /\ Len(res[1]) = Len(arg.names)
              /\ \A i \in 1..Len(arg.names) :
                    IF \E h \in 1..Len(arg.l) : arg.l[h] = arg.names[i]
                    THEN /\ res[1][i] < Len(arg.l)
                         /\ arg.l[res[1][i] + 1] = arg.names[i]
                    ELSE res[1][i] = 0
        /\ pc = "names" =>
              /\ Len(res[1]) = Len(arg.keys)
              /\ \A i \in 1..Len(arg.keys) :
                    res[1][i] = IF arg.keys[i] < Len(arg.l)
                                THEN arg.l[arg.keys[i] + 1] ELSE <<>>

\* a name of no Library after one of the Library was translated to 0 and its
\* key, or a key past the Library after one inside it was translated
C22_Witness ==
    /\ arg.op = "xlate"
    /\ \/ /\ pc = "keys"
          /\ arg.names = <<Run(98, 1), Run(99, 1)>>
          /\ arg.l = <<Run(97, 1), Run(98, 1)>>
          /\ res[1] = <<1, 0>>
       \/ /\ pc = "names"
          /\ arg.keys = <<1, MaxKids + 1>>
          /\ arg.l = <<Run(97, 1), Run(98, 1)>>
          /\ res[1] = <<Run(98, 1), <<>>>>

\* C30: for every index i below the length of the Library the Glossary was
\* built from, also of a Library that has a string at several positions,
\* xlate(g, xlate(g, [i])) is [i].
C30_GlossaryBijection ==
    (arg.op = "xlate" /\ pc = "back"
        /\ \A i \in 1..Len(arg.keys) : arg.keys[i] < Len(arg.l)) =>
        res[2] = arg.keys

====
